---- MODULE Spec2Model ----
(***************************************************************************)
(* Model of the batch scripts of the CoCiP / PyContrails workflow.         *)
(*                                                                         *)
(*   SpecBatch : 02_traffic_cocip.py ("traffic") and 06_route_cocip.py /   *)
(*               06_route_cocip_SAF_Blends.py ("route"; the two files have *)
(*               the same control flow and differ in the fuel attribute    *)
(*               and the column list only).  The script is run MaxRuns     *)
(*               times over the same input, the output files persisting.   *)
(*                                                                         *)
(*   SpecTAS   : 13_true_air_speed.py, one run over the input folder.      *)
(*                                                                         *)
(*   SpecWaypoint : 13_true_air_speed.py, one waypoint: pressure level,    *)
(*               wind lookup on the grid, true airspeed.                   *)
(*                                                                         *)
(*   SpecJoin  : 09_aircraft_selection.py ("selection") and                *)
(*               00_air_traffic_performance.py ("performance"), the files  *)
(*               of the input list one after the other.                    *)
(*                                                                         *)
(*   SpecAttr  : 17_icao24_attribution.py.                                 *)
(*                                                                         *)
(*   SpecConv  : 04_convergence.py up to the per-flight EF tables.         *)
(*                                                                         *)
(*   SpecPareto : 03_post_processing.py, the Pareto table with 'Others'.   *)
(*                                                                         *)
(*   SpecRouteLive : one run of 06_route_cocip.py with weak fairness of    *)
(*               its steps, for termination.                               *)
(*                                                                         *)
(* The external library (ERA5 download, Flight, Cocip) is an environment:  *)
(* each call nondeterministically succeeds or raises.  File writes are     *)
(* assumed to succeed.                                                     *)
(***************************************************************************)
EXTENDS Integers, Sequences, FiniteSets, TLC

\* ------------------------------------------------------------------ bounds
MaxFlightIds    == 2     \* distinct flight_ids in the input folder
MaxInputFlights == 2     \* (file, flight_id) pairs in the input folder
MaxRuns         == 2     \* times the script is started
MaxInputRows    == 3     \* waypoints in the input folder of 13_true_air_speed
MaxJoinRows     == 2     \* waypoints in the input file of 09 / 00
MaxSummaryRows  == 2     \* rows of the summary dataset of 17
MaxMainRows     == 3     \* rows of the main dataset of 17
MaxEfRows       == 5     \* rows of the three datasets of 04 together
MaxParetoFlights == 5    \* flights of the dataset of 03

\* ------------------------------------------------------- program constants
max_retries    == 3
retry_interval == 30
threshold      == 20

\* ------------------------------------------------------------------- state
VARIABLES
    script,                 \* which script runs: "traffic" (02) or "route" (06)
    inputFiles,             \* the input CSVs: per file its unique flight_id list
    output_csv_file,        \* main output file  [exists, rows]
    summary_output_csv_file,\* summary output file [exists, rows] (route only)
    run,                    \* number of the current run of the script
    pc,                     \* position of the run in the script
    crash,                  \* the uncaught exception that ended the run, or "none"
    write_header,           \* 02: header flag
    write_header_main,      \* 06: header flag of the main file
    write_header_summary,   \* 06: header flag of the summary file
    existing_flight_ids,    \* flight_id column of the main file read at start
    processed_flights,      \* 06: set filled after each non-failing flight
    file_idx,               \* index of the current input file
    filtered_flights_list,  \* flights of the current file that are not excluded
    flight_idx,             \* index of the current flight in the filtered list
    met, rad,               \* origin of the bound weather datasets
    attempt,                \* 06: loop variable of the retry loop
    slept,                  \* 06: seconds slept in the retry loop of this flight
    attempt_log,            \* history: outcomes of this flight's download attempts
    last_success,           \* history: origin of the last complete download
    outcome,                \* history: what the model step of this flight did
    evals,                  \* history: model invocations per flight_id in this run
    iterated,               \* history: flights the loop of this run went through
    start_rows,             \* history: rows of the main file when the run began
    start_summary_rows      \* history: rows of the summary file when the run began

batchVars == <<script, inputFiles, output_csv_file, summary_output_csv_file, run,
               pc, crash, write_header, write_header_main, write_header_summary,
               existing_flight_ids, processed_flights, file_idx,
               filtered_flights_list, flight_idx, met, rad, attempt, slept,
               attempt_log, last_success, outcome, evals, iterated, start_rows,
               start_summary_rows>>

VARIABLES
    csv_files,              \* 13: input files [has_columns, flight_id column, rows]
    output_file,            \* 13: output file [exists, rows]
    first_write,            \* 13: header flag
    tas_pc,                 \* 13: position in the script
    tas_crash,              \* 13: the uncaught exception that ended the run
    tas_file,               \* 13: index of the current input file
    tas_group,              \* 13: index of the current flight_id group
    sub_df,                 \* 13: rows of the current flight iterated so far
    u_wind_list,            \* 13: eastward wind per iterated row
    v_wind_list,            \* 13: northward wind per iterated row
    lookup_log,             \* history: what the wind lookup of each iterated row did
    row_log                 \* history: the rows the run has iterated, in that order

tasVars == <<csv_files, output_file, first_write, tas_pc, tas_crash, tas_file,
             tas_group, sub_df, u_wind_list, v_wind_list, lookup_log,
            row_log>>

VARIABLES
    wp,                     \* 13: one waypoint (row) on its way through the loop body
    wp_pc,                  \* 13: position of that waypoint in the loop body
    wp_u_wind,              \* 13: u_wind of the row after the try/except
    wp_v_wind,              \* 13: v_wind of the row after the try/except
    wp_out,                 \* 13: the row with its derived columns
    wp_sel                  \* history: what the two sel calls of the row did

wpVars == <<wp, wp_pc, wp_u_wind, wp_v_wind, wp_out, wp_sel>>

VARIABLES
    join_script,            \* 09/00: "selection" (09) or "performance" (00)
    acft_df,                \* 09/00: aircraft database, columns icao24, ICAO
    wingspan_df,            \* 09/00: aircraft parameters, columns kept by the script
    input_files,            \* 09/00: the input flight files
    join_file,              \* 09/00: index of the current input file
    input_file,             \* 09/00: rows of the current input flight file
    join_df,                \* 09/00: df
    join_pc,                \* 09/00: position in the script
    join_group,             \* 00: index of the current flight_id group
    processed_flight_groups,\* 00: processed groups
    join_output_file,       \* 09/00: the output file of the current input file
    join_error,             \* 00: the exception caught by the file-level except
    join_output_start,      \* history: that output file when the script began
    join_finished           \* history: the files the loop has left behind

joinVars == <<join_script, acft_df, wingspan_df, input_files, join_file, input_file,
              join_df, join_pc, join_group, processed_flight_groups, join_output_file,
              join_error, join_output_start, join_finished>>

VARIABLES
    df1,                    \* 17: the summary dataset
    df2,                    \* 17: the main dataset
    df2_dedup,              \* 17: the main dataset without duplicate flight_ids
    df1_updated,            \* 17: the summary with the merged columns
    attr_pc,                \* 17: position in the script
    attr_crash,             \* 17: the uncaught exception that ended the run
    attr_output_file        \* 17: the enriched summary file [exists, rows]

attrVars == <<df1, df2, df2_dedup, df1_updated, attr_pc, attr_crash, attr_output_file>>

VARIABLES
    conv_files,             \* 04: the three input files as read
    conv_df1,               \* 04: df1
    conv_df2,               \* 04: df2
    conv_df3,               \* 04: df3
    common_flight_ids,      \* 04: flight_ids found in all three datasets
    df1_summed,             \* 04: per-flight EF table of dataset 1
    df2_summed,             \* 04: per-flight EF table of dataset 2
    df3_summed,             \* 04: per-flight EF table of dataset 3
    conv_pc                 \* 04: position in the script

convVars == <<conv_files, conv_df1, conv_df2, conv_df3, common_flight_ids,
              df1_summed, df2_summed, df3_summed, conv_pc>>

\* Variables of the single-purpose scripts and of the single-waypoint view.
VARIABLES
    summed_ef,              \* 03: per-flight EF totals
    sorted_ef,              \* 03: the totals in descending order with their cumulative %
    top_contributors,       \* 03: the table of the Pareto chart with 'Others'
    others,                 \* 03: the rows grouped as 'Others'
    others_sum,             \* 03: EF of the 'Others' row
    pareto_pc               \* 03: position in the script

paretoVars == <<summed_ef, sorted_ef, top_contributors, others, others_sum, pareto_pc>>

toolVars == <<wpVars, joinVars, attrVars, convVars, paretoVars>>

vars == <<batchVars, tasVars, toolVars>>

\* A value that is not there yet.
Nothing == [kind |-> "nothing"]

WpIdle ==
    /\ wp = Nothing
    /\ wp_pc = "idle"
    /\ wp_u_wind = Nothing
    /\ wp_v_wind = Nothing
    /\ wp_out = Nothing
    /\ wp_sel = Nothing

JoinIdle ==
    /\ join_script = "none"
    /\ acft_df = <<>>
    /\ wingspan_df = <<>>
    /\ input_files = <<>>
    /\ join_file = 0
    /\ input_file = <<>>
    /\ join_df = <<>>
    /\ join_pc = "idle"
    /\ join_group = 0
    /\ processed_flight_groups = <<>>
    /\ join_output_file = [exists |-> FALSE, rows |-> <<>>]
    /\ join_error = "none"
    /\ join_output_start = [exists |-> FALSE, rows |-> <<>>]
    /\ join_finished = <<>>

AttrIdle ==
    /\ df1 = <<>>
    /\ df2 = <<>>
    /\ df2_dedup = <<>>
    /\ df1_updated = <<>>
    /\ attr_pc = "idle"
    /\ attr_crash = "none"
    /\ attr_output_file = [exists |-> FALSE, rows |-> <<>>]

ConvIdle ==
    /\ conv_files = <<>>
    /\ conv_df1 = <<>>
    /\ conv_df2 = <<>>
    /\ conv_df3 = <<>>
    /\ common_flight_ids = {}
    /\ df1_summed = <<>>
    /\ df2_summed = <<>>
    /\ df3_summed = <<>>
    /\ conv_pc = "idle"

ParetoIdle ==
    /\ summed_ef = <<>>
    /\ sorted_ef = <<>>
    /\ top_contributors = <<>>
    /\ others = <<>>
    /\ others_sum = 0
    /\ pareto_pc = "idle"

ToolsIdle == WpIdle /\ JoinIdle /\ AttrIdle /\ ConvIdle /\ ParetoIdle

\* ------------------------------------------------------------- flight ids
AllFlightIds == <<"F1", "F2", "F3", "F4", "F5", "F6">>
FlightIds    == {AllFlightIds[i] : i \in 1..MaxFlightIds}

\* data['flight_id'].unique().tolist() of a file holding the flights S
UniqueFlightsList(S) ==
    SelectSeq(SubSeq(AllFlightIds, 1, MaxFlightIds), LAMBDA f : f \in S)

FlightLists == {UniqueFlightsList(S) : S \in (SUBSET FlightIds) \ {{}}}

RECURSIVE SumLen(_)
SumLen(files) == IF files = <<>> THEN 0 ELSE Len(Head(files)) + SumLen(Tail(files))

\* The contents of the input folder: one to maxFiles .csv files.
InputFolders(maxFiles) ==
    {files \in UNION {[1..n -> FlightLists] : n \in 1..maxFiles} :
        SumLen(files) <= MaxInputFlights}

\* ------------------------------------------------------------------- rows
\* The value of the flight_id column: the id and the suffix appended to it.
FlightIdValue(f, suffix) == [id |-> f, suffix |-> suffix]

HeaderRow == [kind |-> "header", flight_id |-> FlightIdValue("flight_id", "")]

\* df = output_flight.dataframe: the waypoints of the flight with the results
ResultRows(f) == <<[kind |-> "result", flight_id |-> FlightIdValue(f, "")]>>

\* Mutant: the no-contrail branch writes nothing.
NoContrailRowOmitted(f) == <<>>

\* new_line = {col: [np.nan] for col in columns}; new_line["flight_id"] = [flight_id]
NoContrailRow(f) == <<[kind |-> "nan", flight_id |-> FlightIdValue(f, "")]>>

\* new_line["flight_id"] = [flight_id + "_ERROR"]
ErrorRow(f) == <<[kind |-> "nan", flight_id |-> FlightIdValue(f, "_ERROR")]>>

\* flight_summary = contrail_flight_summary_statistics(waypoint_summary)
SummaryRow(f) == <<[kind |-> "summary", flight_id |-> FlightIdValue(f, "")]>>

\* ------------------------------------------------------------------ files
MissingFile == [exists |-> FALSE, rows |-> <<>>]
EmptyFile   == [exists |-> TRUE,  rows |-> <<>>]

\* df.to_csv(file, mode='a', header=header, index=False)
ToCsvAppend(file, rows, header) ==
    [exists |-> TRUE,
     rows   |-> file.rows \o (IF header THEN <<HeaderRow>> ELSE <<>>) \o rows]

\* pd.read_csv(file)["flight_id"].unique(): the first line names the columns,
\* every later line is data (a repeated header line reads as a data row).
ReadFlightIds(file) ==
    {file.rows[i].flight_id : i \in 2..Len(file.rows)}

\* not os.path.exists(f) or os.stat(f).st_size == 0
MissingOrEmpty(file) == ~file.exists \/ file.rows = <<>>

\* ---------------------------------------------------------------- weather
Unbound    == <<0, 0>>
BulkOrigin == <<1, 0>>      \* 02: one download for the whole data set
CurOrigin  == <<file_idx, flight_idx>>

\* ------------------------------------------------------- shared operators
\* Mutant: the list is not filtered.
UnfilteredFlightsList(unique_flights_list, existing) == unique_flights_list

\* Mutant: a flight is excluded by any row of its id, the '_ERROR' row included.
FilterByPlainId(unique_flights_list, existing) ==
    SelectSeq(unique_flights_list,
              LAMBDA fid : \A e \in existing : e.id # fid)

\* [fid for fid in unique_flights_list if fid not in existing_flight_ids]
FilteredFlightsList(unique_flights_list, existing) ==
    SelectSeq(unique_flights_list, LAMBDA fid : FlightIdValue(fid, "") \notin existing)

\* Mutant: the flag starts True whatever the file holds (as in 02).
RouteWriteHeaderMainAlways(file) == TRUE

\* 06: write_header_main after lines 61-74
RouteWriteHeaderMain(file) ==
    IF file.exists THEN FALSE ELSE MissingOrEmpty(file)

\* 06: write_header_summary after line 62
RouteWriteHeaderSummary(file) == MissingOrEmpty(file)

\* 02: write_header = True
TrafficWriteHeader(file) == TRUE

\* Mutant: the script sleeps after every failure, the last one included.
SleepAfterEveryFailure(att) == retry_interval

\* 06: seconds slept after the failure of attempt number att
SleepAfterFailure(att) == IF att < max_retries THEN retry_interval ELSE 0

\* Mutant: the retry loop has no last attempt.
RangeHasNextAlways(att) == TRUE

\* 06: for attempt in range(1, max_retries + 1) has a value after att
RangeHasNext(att) == att < max_retries

\* Mutant: the model step does not depend on met and rad being bound.
ModelOutcomesAnyway(m, r) == {"raise", "none", "result"}

\* What Cocip(met=met, rad=rad, ...) / cocip.eval(source=flight) can do: an
\* unbound met or rad raises NameError before the model is invoked.
ModelOutcomes(m, r) ==
    IF m = Unbound \/ r = Unbound THEN {"raise"} ELSE {"raise", "none", "result"}

\* The state of the interpreter when a run of the script begins.
MemoryInit ==
    /\ pc = "start"
    /\ crash = "none"
    /\ write_header = FALSE
    /\ write_header_main = FALSE
    /\ write_header_summary = FALSE
    /\ existing_flight_ids = {}
    /\ processed_flights = {}
    /\ file_idx = 0
    /\ filtered_flights_list = <<>>
    /\ flight_idx = 0
    /\ met = Unbound
    /\ rad = Unbound
    /\ attempt = 0
    /\ slept = 0
    /\ attempt_log = <<>>
    /\ last_success = Unbound
    /\ outcome = "pending"
    /\ evals = [f \in FlightIds |-> 0]
    /\ iterated = <<>>
    /\ start_rows = <<>>
    /\ start_summary_rows = <<>>

\* The other script's variables while the batch scripts run.
TasIdle ==
    /\ csv_files = <<>>
    /\ output_file = MissingFile
    /\ first_write = FALSE
    /\ tas_pc = "idle"
    /\ tas_crash = "none"
    /\ tas_file = 0
    /\ tas_group = 0
    /\ sub_df = <<>>
    /\ u_wind_list = <<>>
    /\ v_wind_list = <<>>
    /\ lookup_log = <<>>
    /\ row_log = <<>>

InitBatch ==
    /\ ToolsIdle
    /\ TasIdle
    /\ script \in {"traffic", "route"}
    /\ inputFiles \in InputFolders(IF script = "traffic" THEN 1 ELSE MaxInputFlights)
    /\ output_csv_file \in {MissingFile, EmptyFile}
    /\ summary_output_csv_file \in
           (IF script = "route" THEN {MissingFile, EmptyFile} ELSE {MissingFile})
    /\ run = 1
    /\ MemoryInit

Crash(exception) ==
    /\ pc' = "crashed"
    /\ crash' = exception

CurFlight == filtered_flights_list[flight_idx]

\* ------------------------------------------------- 06_route_cocip(_SAF_Blends)
\* lines 61-74: header flags, processed_flights, existing_flight_ids
RouteStartup ==
    /\ script = "route" /\ pc = "start"
    /\ start_rows' = output_csv_file.rows
    /\ start_summary_rows' = summary_output_csv_file.rows
    /\ write_header_summary' = RouteWriteHeaderSummary(summary_output_csv_file)
    /\ processed_flights' = {}
    /\ IF output_csv_file.exists /\ output_csv_file.rows = <<>>
       THEN \* pd.read_csv raises EmptyDataError on a file of size 0
            /\ Crash("EmptyDataError")
            /\ write_header_main' = MissingOrEmpty(output_csv_file)
            /\ UNCHANGED <<existing_flight_ids, file_idx>>
       ELSE /\ existing_flight_ids' =
                  (IF output_csv_file.exists THEN ReadFlightIds(output_csv_file) ELSE {})
            /\ write_header_main' = RouteWriteHeaderMain(output_csv_file)
            /\ file_idx' = 1
            /\ pc' = "file"
            /\ UNCHANGED crash
    /\ UNCHANGED <<tasVars, toolVars>>
    /\ UNCHANGED <<script, inputFiles, output_csv_file, summary_output_csv_file, run,
                   write_header, filtered_flights_list, flight_idx, met, rad, attempt,
                   slept, attempt_log, last_success, outcome, evals, iterated>>

\* lines 77-88: next input file, its unique and filtered flight lists
RouteNextFile ==
    /\ script = "route" /\ pc = "file"
    /\ IF file_idx > Len(inputFiles)
       THEN /\ pc' = "done"
            /\ UNCHANGED <<filtered_flights_list, flight_idx>>
       ELSE /\ filtered_flights_list' =
                  FilteredFlightsList(inputFiles[file_idx], existing_flight_ids)
            /\ flight_idx' = 1
            /\ pc' = "flight"
    /\ UNCHANGED <<tasVars, toolVars>>
    /\ UNCHANGED <<script, inputFiles, output_csv_file, summary_output_csv_file, run,
                   crash, write_header, write_header_main, write_header_summary,
                   existing_flight_ids, processed_flights, file_idx, met, rad, attempt,
                   slept, attempt_log, last_success, outcome, evals, iterated,
                   start_rows,
                   start_summary_rows>>

\* lines 91-122: next flight of the filtered list, ERA5 objects, attempt = 1
RouteBeginFlight ==
    /\ script = "route" /\ pc = "flight"
    /\ IF flight_idx > Len(filtered_flights_list)
       THEN /\ file_idx' = file_idx + 1
            /\ pc' = "file"
            /\ UNCHANGED <<attempt, slept, attempt_log, outcome>>
       ELSE /\ attempt' = 1
            /\ slept' = 0
            /\ attempt_log' = <<>>
            /\ outcome' = "pending"
            /\ pc' = "download"
            /\ UNCHANGED file_idx
    /\ UNCHANGED <<tasVars, toolVars>>
    /\ UNCHANGED <<script, inputFiles, output_csv_file, summary_output_csv_file, run,
                   crash, write_header, write_header_main, write_header_summary,
                   existing_flight_ids, processed_flights, filtered_flights_list,
                   flight_idx, met, rad, last_success, evals, iterated, start_rows,
                   start_summary_rows>>

\* lines 122-134: one pass of the retry loop.  res is what the two
\* open_metdataset calls do: both open, the first raises, the second raises.
RouteDownloadAttempt ==
    /\ script = "route" /\ pc = "download"
    /\ \E res \in {"ok", "pl_raises", "sl_raises"} :
         /\ attempt_log' = Append(attempt_log, IF res = "ok" THEN "ok" ELSE "failed")
         /\ met' = IF res = "pl_raises" THEN met ELSE CurOrigin
         /\ rad' = IF res = "ok" THEN CurOrigin ELSE rad
         /\ last_success' = IF res = "ok" THEN CurOrigin ELSE last_success
         /\ IF res = "ok"
            THEN /\ pc' = "flightctor"              \* break
                 /\ UNCHANGED <<attempt, slept>>
            ELSE /\ slept' = slept + SleepAfterFailure(attempt)
                 /\ IF RangeHasNext(attempt)
                    THEN /\ attempt' = attempt + 1
                         /\ UNCHANGED pc
                    ELSE /\ pc' = "flightctor"      \* range exhausted
                         /\ UNCHANGED attempt
    /\ UNCHANGED <<tasVars, toolVars>>
    /\ UNCHANGED <<script, inputFiles, output_csv_file, summary_output_csv_file, run,
                   crash, write_header, write_header_main, write_header_summary,
                   existing_flight_ids, processed_flights, file_idx,
                   filtered_flights_list, flight_idx, outcome, evals, iterated,
                   start_rows,
                   start_summary_rows>>

\* line 137: flight = Flight(flight_data, attrs=attrs), outside every try
RouteFlightCtor ==
    /\ script = "route" /\ pc = "flightctor"
    /\ \E raises \in BOOLEAN :
         IF raises THEN Crash("FlightError")
                   ELSE pc' = "model" /\ UNCHANGED crash
    /\ UNCHANGED <<tasVars, toolVars>>
    /\ UNCHANGED <<script, inputFiles, output_csv_file, summary_output_csv_file, run,
                   write_header, write_header_main, write_header_summary,
                   existing_flight_ids, processed_flights, file_idx,
                   filtered_flights_list, flight_idx, met, rad, attempt, slept,
                   attempt_log, last_success, outcome, evals, iterated, start_rows,
                   start_summary_rows>>

\* lines 149-205: try / except / finally around the model
RouteEvalFlight ==
    /\ script = "route" /\ pc = "model"
    /\ \E o \in ModelOutcomes(met, rad) :
         /\ outcome' = o
         /\ iterated' = Append(iterated, [fid |-> CurFlight, outcome |-> o])
         /\ CASE o = "none" ->
                   /\ output_csv_file' = ToCsvAppend(output_csv_file,
                                            NoContrailRow(CurFlight), write_header_main)
                   /\ processed_flights' = processed_flights \cup {CurFlight}
                   /\ UNCHANGED <<summary_output_csv_file, write_header_summary>>
              [] o = "result" ->
                   /\ output_csv_file' = ToCsvAppend(output_csv_file,
                                            ResultRows(CurFlight), write_header_main)
                   /\ summary_output_csv_file' = ToCsvAppend(summary_output_csv_file,
                                            SummaryRow(CurFlight), write_header_summary)
                   /\ write_header_summary' = FALSE
                   /\ processed_flights' = processed_flights \cup {CurFlight}
              [] o = "raise" ->
                   /\ output_csv_file' = ToCsvAppend(output_csv_file,
                                            ErrorRow(CurFlight), write_header_main)
                   /\ UNCHANGED <<summary_output_csv_file, write_header_summary,
                                  processed_flights>>
    /\ write_header_main' = FALSE
    /\ evals' = IF met = Unbound \/ rad = Unbound THEN evals
                ELSE [evals EXCEPT ![CurFlight] = @ + 1]
    /\ flight_idx' = flight_idx + 1
    /\ pc' = "flight"
    /\ UNCHANGED <<tasVars, toolVars>>
    /\ UNCHANGED <<script, inputFiles, run, crash, write_header, existing_flight_ids,
                   file_idx, filtered_flights_list, met, rad, attempt, slept,
                   attempt_log, last_success, start_rows,
                   start_summary_rows>>

\* ------------------------------------------------------------ 02_traffic_cocip
\* lines 66-88: input data, existing_flight_ids, filtered list, write_header
TrafficStartup ==
    /\ script = "traffic" /\ pc = "start"
    /\ start_rows' = output_csv_file.rows
    /\ start_summary_rows' = summary_output_csv_file.rows
    /\ IF output_csv_file.exists /\ output_csv_file.rows = <<>>
       THEN \* pd.read_csv raises EmptyDataError on a file of size 0
            /\ Crash("EmptyDataError")
            /\ UNCHANGED <<existing_flight_ids, filtered_flights_list, write_header,
                           file_idx>>
       ELSE /\ existing_flight_ids' =
                  (IF output_csv_file.exists THEN ReadFlightIds(output_csv_file) ELSE {})
            /\ filtered_flights_list' =
                  FilteredFlightsList(inputFiles[1], existing_flight_ids')
            /\ write_header' = TrafficWriteHeader(output_csv_file)
            /\ file_idx' = 1
            /\ pc' = "bulk_download"
            /\ UNCHANGED crash
    /\ UNCHANGED <<tasVars, toolVars>>
    /\ UNCHANGED <<script, inputFiles, output_csv_file, summary_output_csv_file, run,
                   write_header_main, write_header_summary, processed_flights,
                   flight_idx, met, rad, attempt, slept, attempt_log, last_success,
                   outcome, evals, iterated>>

\* lines 91-109: one download for the whole data set, outside every try
TrafficDownload ==
    /\ script = "traffic" /\ pc = "bulk_download"
    /\ \E res \in {"ok", "raises"} :
         IF res = "ok"
         THEN /\ met' = BulkOrigin
              /\ rad' = BulkOrigin
              /\ last_success' = BulkOrigin
              /\ flight_idx' = 1
              /\ pc' = "flight"
              /\ UNCHANGED crash
         ELSE /\ Crash("DownloadError")
              /\ UNCHANGED <<met, rad, last_success, flight_idx>>
    /\ UNCHANGED <<tasVars, toolVars>>
    /\ UNCHANGED <<script, inputFiles, output_csv_file, summary_output_csv_file, run,
                   write_header, write_header_main, write_header_summary,
                   existing_flight_ids, processed_flights, file_idx,
                   filtered_flights_list, attempt, slept, attempt_log, outcome, evals,
                   iterated, start_rows,
                   start_summary_rows>>

\* lines 112-120: next flight of the filtered list
TrafficBeginFlight ==
    /\ script = "traffic" /\ pc = "flight"
    /\ IF flight_idx > Len(filtered_flights_list)
       THEN pc' = "done" /\ UNCHANGED outcome
       ELSE pc' = "flightctor" /\ outcome' = "pending"
    /\ UNCHANGED <<tasVars, toolVars>>
    /\ UNCHANGED <<script, inputFiles, output_csv_file, summary_output_csv_file, run,
                   crash, write_header, write_header_main, write_header_summary,
                   existing_flight_ids, processed_flights, file_idx,
                   filtered_flights_list, flight_idx, met, rad, attempt, slept,
                   attempt_log, last_success, evals, iterated, start_rows,
                   start_summary_rows>>

\* line 123: flight = Flight(filtered_data, attrs=attrs), outside the try
TrafficFlightCtor ==
    /\ script = "traffic" /\ pc = "flightctor"
    /\ \E raises \in BOOLEAN :
         IF raises THEN Crash("FlightError")
                   ELSE pc' = "model" /\ UNCHANGED crash
    /\ UNCHANGED <<tasVars, toolVars>>
    /\ UNCHANGED <<script, inputFiles, output_csv_file, summary_output_csv_file, run,
                   write_header, write_header_main, write_header_summary,
                   existing_flight_ids, processed_flights, file_idx,
                   filtered_flights_list, flight_idx, met, rad, attempt, slept,
                   attempt_log, last_success, outcome, evals, iterated, start_rows,
                   start_summary_rows>>

\* lines 135-197: try / except / continue, then the hasattr(contrail, "head") branches
TrafficEvalFlight ==
    /\ script = "traffic" /\ pc = "model"
    /\ \E o \in ModelOutcomes(met, rad) :
         /\ outcome' = o
         /\ iterated' = Append(iterated, [fid |-> CurFlight, outcome |-> o])
         /\ output_csv_file' =
               ToCsvAppend(output_csv_file,
                           CASE o = "raise"  -> ErrorRow(CurFlight)
                             [] o = "result" -> ResultRows(CurFlight)
                             [] o = "none"   -> NoContrailRow(CurFlight),
                           write_header)
    /\ write_header' = FALSE
    /\ evals' = [evals EXCEPT ![CurFlight] = @ + 1]
    /\ flight_idx' = flight_idx + 1
    /\ pc' = "flight"
    /\ UNCHANGED <<tasVars, toolVars>>
    /\ UNCHANGED <<script, inputFiles, summary_output_csv_file, run, crash,
                   write_header_main, write_header_summary, existing_flight_ids,
                   processed_flights, file_idx, filtered_flights_list, met, rad,
                   attempt, slept, attempt_log, last_success, start_rows,
                   start_summary_rows>>

\* ------------------------------------------------------------------- reruns
\* The script ended (normally or by an uncaught exception) and is started
\* again: the files persist, the interpreter state does not.
Rerun ==
    /\ pc \in {"done", "crashed"}
    /\ run < MaxRuns
    /\ run' = run + 1
    /\ pc' = "start"
    /\ crash' = "none"
    /\ write_header' = FALSE
    /\ write_header_main' = FALSE
    /\ write_header_summary' = FALSE
    /\ existing_flight_ids' = {}
    /\ processed_flights' = {}
    /\ file_idx' = 0
    /\ filtered_flights_list' = <<>>
    /\ flight_idx' = 0
    /\ met' = Unbound
    /\ rad' = Unbound
    /\ attempt' = 0
    /\ slept' = 0
    /\ attempt_log' = <<>>
    /\ last_success' = Unbound
    /\ outcome' = "pending"
    /\ evals' = [f \in FlightIds |-> 0]
    /\ iterated' = <<>>
    /\ start_rows' = <<>>
    /\ start_summary_rows' = <<>>
    /\ UNCHANGED <<tasVars, toolVars>>
    /\ UNCHANGED <<script, inputFiles, output_csv_file, summary_output_csv_file>>

NextBatch ==
    \/ RouteStartup
    \/ RouteNextFile
    \/ RouteBeginFlight
    \/ RouteDownloadAttempt
    \/ RouteFlightCtor
    \/ RouteEvalFlight
    \/ TrafficStartup
    \/ TrafficDownload
    \/ TrafficBeginFlight
    \/ TrafficFlightCtor
    \/ TrafficEvalFlight
    \/ Rerun

SpecBatch == InitBatch /\ [][NextBatch]_vars

\* ============================================================ 13_true_air_speed
\* ----------------------------------------------------------------- floats
\* A float column value: a number or NaN.  Arithmetic propagates NaN.
NaN    == [nan |-> TRUE,  v |-> 0]
Num(x) == [nan |-> FALSE, v |-> x]

FSub(a, b) == IF a.nan \/ b.nan THEN NaN ELSE Num(a.v - b.v)
FAdd(a, b) == IF a.nan \/ b.nan THEN NaN ELSE Num(a.v + b.v)
FMul(a, b) == IF a.nan \/ b.nan THEN NaN ELSE Num(a.v * b.v)
FSq(a)     == FMul(a, a)

RECURSIVE SqrtBits(_, _, _)
SqrtBits(n, r, b) ==
    IF b = 0 THEN r
    ELSE IF (r + b) * (r + b) <= n THEN SqrtBits(n, r + b, b \div 2)
         ELSE SqrtBits(n, r, b \div 2)

\* Mutant: the square root of NaN is taken as 0.
FSqrtNanZero(a) == IF a.nan \/ a.v < 0 THEN Num(0) ELSE Num(SqrtBits(a.v, 0, 4096))

\* np.sqrt, to the integer below; a negative argument gives NaN
FSqrt(a) == IF a.nan \/ a.v < 0 THEN NaN ELSE Num(SqrtBits(a.v, 0, 4096))

\* ------------------------------------------------------------ the formula
\* np.radians(heading): headings are multiples of 90 degrees, the angle is
\* kept in quarter turns (units of pi/2).
Radians(heading) == IF heading.nan THEN NaN ELSE Num(heading.v \div 90)

\* np.sin / np.cos of an angle in quarter turns
Sin(a) == IF a.nan THEN NaN
          ELSE Num(CASE a.v % 4 = 0 -> 0 [] a.v % 4 = 1 -> 1
                     [] a.v % 4 = 2 -> 0 [] a.v % 4 = 3 -> -1)
Cos(a) == IF a.nan THEN NaN
          ELSE Num(CASE a.v % 4 = 0 -> 1 [] a.v % 4 = 1 -> 0
                     [] a.v % 4 = 2 -> -1 [] a.v % 4 = 3 -> 0)

\* Mutant: the x component is taken with the cosine.
GS_x_cos(groundspeed, heading_rad) == FMul(groundspeed, Cos(heading_rad))

\* sub_df["GS_x"] = sub_df["groundspeed"] * np.sin(sub_df["heading_rad"])
GS_x(groundspeed, heading_rad) == FMul(groundspeed, Sin(heading_rad))

\* Mutant: the y component adds the cosine to the groundspeed.
GS_y_plus(groundspeed, heading_rad) == FAdd(groundspeed, Cos(heading_rad))

\* sub_df["GS_y"] = sub_df["groundspeed"] * np.cos(sub_df["heading_rad"])
GS_y(groundspeed, heading_rad) == FMul(groundspeed, Cos(heading_rad))

\* TAS_values and np.sqrt(TAS_values)
TrueAirspeed(gs_x, gs_y, u_wind, v_wind) ==
    FSqrt(FAdd(FSq(FSub(gs_x, u_wind)), FSq(FSub(gs_y, v_wind))))

\* ------------------------------------------------------------ wind lookup
\* Mutant: a failed lookup falls back to calm air instead of NaN.
WindLookupZeroFill(res, wind) ==
    IF res = "ok" THEN [u |-> Num(wind[1]), v |-> Num(wind[2])]
    ELSE [u |-> Num(0), v |-> Num(0)]

\* Mutant: when the northward lookup raises, the eastward value is kept.
WindLookupKeepU(res, wind) ==
    CASE res = "ok"       -> [u |-> Num(wind[1]), v |-> Num(wind[2])]
      [] res = "v_raises" -> [u |-> Num(wind[1]), v |-> NaN]
      [] OTHER            -> [u |-> NaN, v |-> NaN]

\* The two met_xr[...].sel(..., method="nearest") calls of one row inside the
\* try: res tells which call raises, wind is the sample the field holds.
WindLookup(res, wind) ==
    IF res = "ok" THEN [u |-> Num(wind[1]), v |-> Num(wind[2])]
    ELSE [u |-> NaN, v |-> NaN]

LookupResults == {"ok", "u_raises", "v_raises"}

\* Waypoints of the input files with the wind sample nearest to each.
Waypoints ==
    { [groundspeed |-> 250, heading |->   0, wind |-> <<  0,  50>>],
      [groundspeed |->   0, heading |->  90, wind |-> << 30,  40>>],
      [groundspeed |-> 250, heading |->  90, wind |-> <<100, 200>>],
      [groundspeed |-> 100, heading |-> 180, wind |-> << 60, -20>>],
      [groundspeed |-> 100, heading |-> 270, wind |-> <<-40,  80>>] }

\* A row whose lookup raises: the wind sample plays no part.
FailingWaypoint == [groundspeed |-> 250, heading |-> 0, wind |-> <<0, 0>>]

\* A row whose groundspeed or heading cell is empty; its lookup succeeds.
IncompleteWaypoint == [groundspeed |-> 250, heading |-> 0, wind |-> <<0, 50>>]

\* A row of an input file as the loop meets it: the waypoint, which of its
\* cells is empty, and what its lookup does.
RowChoices ==
    {[wp |-> w, res |-> "ok", missing |-> "none"] : w \in Waypoints}
    \cup {[wp |-> FailingWaypoint, res |-> r, missing |-> "none"] :
             r \in LookupResults \ {"ok"}}
    \cup {[wp |-> IncompleteWaypoint, res |-> "ok", missing |-> m] :
             m \in {"groundspeed", "heading"}}

\* A cell of a numeric column as read_csv gives it: NaN when it is empty.
Cell(c, column) == IF c.missing = column THEN NaN ELSE Num(c.wp[column])

\* --------------------------------------------------------------- the input
\* flight_id values of the input files
TasFlightIds == {"F1", "F2"}

\* A file: whether it has the groundspeed and heading columns, and its
\* flight_id column in file order.
TasFiles(maxRows) ==
    {[has_columns |-> c, flight_id |-> g] :
        c \in BOOLEAN, g \in UNION {[1..n -> TasFlightIds] : n \in 1..maxRows}}

RECURSIVE FolderRows(_)
FolderRows(files) ==
    IF files = <<>> THEN 0 ELSE Len(Head(files).flight_id) + FolderRows(Tail(files))

\* The input folder: one CSV file or two, MaxInputRows rows at most.
TasFolders ==
    {files \in {<<f>> : f \in TasFiles(MaxInputRows)}
                  \cup {<<f, g>> : f \in TasFiles(MaxInputRows - 1),
                                   g \in TasFiles(MaxInputRows - 1)} :
        FolderRows(files) <= MaxInputRows}

\* ------------------------------------------------------------------ groupby
\* Place of a flight_id in sorted order.
Rank(f) == CHOOSE i \in DOMAIN AllFlightIds : AllFlightIds[i] = f

RECURSIVE SortedKeys(_)
SortedKeys(S) ==
    IF S = {} THEN <<>>
    ELSE LET m == CHOOSE f \in S : \A g \in S : Rank(f) <= Rank(g)
         IN  <<m>> \o SortedKeys(S \ {m})

\* Mutant: the groups come in the order of first appearance in the file.
GroupKeysFileOrder(flight_id) ==
    LET first == SelectSeq([i \in DOMAIN flight_id |-> i],
                           LAMBDA i : \A j \in 1..(i - 1) : flight_id[j] # flight_id[i])
    IN  [k \in DOMAIN first |-> flight_id[first[k]]]

\* df.groupby("flight_id"): the group keys, sorted
GroupKeys(flight_id) == SortedKeys({flight_id[i] : i \in DOMAIN flight_id})

\* df.groupby("flight_id"): index labels of the rows of a group, in file order
GroupIndex(flight_id, key) ==
    SelectSeq([i \in DOMAIN flight_id |-> i], LAMBDA i : flight_id[i] = key)

\* The output file of an earlier run.
StaleRow  == [kind |-> "stale", flight_id |-> "F1"]
StaleFile == [exists |-> TRUE, rows |-> <<[kind |-> "header"], StaleRow>>]

\* One written row of a flight: the input columns and the derived ones.
DerivedRow(r) ==
    LET heading_rad == Radians(r.heading)
        gs_x == GS_x(r.groundspeed, heading_rad)
        gs_y == GS_y(r.groundspeed, heading_rad)
    IN  [kind |-> "data", flight_id |-> r.flight_id,
         groundspeed |-> r.groundspeed, heading |-> r.heading,
         u_wind |-> r.u_wind, v_wind |-> r.v_wind,
         GS_x |-> gs_x, GS_y |-> gs_y,
         true_airspeed |-> TrueAirspeed(gs_x, gs_y, r.u_wind, r.v_wind)]

\* sub_df with the columns of lines 125-136
ProcessedFlight(df, u_list, v_list) ==
    [i \in 1..Len(df) |->
        DerivedRow([df[i] EXCEPT !.u_wind = u_list[i], !.v_wind = v_list[i]])]

\* Mutant: the columns are not checked.
MissingColumnUnchecked(file) == FALSE

\* "groundspeed" not in sub_df.columns or "heading" not in sub_df.columns
MissingColumn(file) == ~file.has_columns

\* Mutant: every block is written with the header.
TasToCsvAppendHeaderAlways(file, rows, header) ==
    [exists |-> TRUE, rows |-> file.rows \o <<[kind |-> "header"]>> \o rows]

\* sub_df.to_csv(output_file, mode='a', index=False, header=first_write)
TasToCsvAppend(file, rows, header) ==
    [exists |-> TRUE,
     rows   |-> file.rows \o (IF header THEN <<[kind |-> "header"]>> ELSE <<>>) \o rows]

\* The other scripts' variables while 13_true_air_speed runs.
BatchIdle ==
    /\ script = "none"
    /\ inputFiles = <<>>
    /\ output_csv_file = MissingFile
    /\ summary_output_csv_file = MissingFile
    /\ run = 0
    /\ MemoryInit

InitTAS ==
    /\ BatchIdle
    /\ ToolsIdle
    /\ csv_files \in TasFolders
    /\ output_file \in {MissingFile, StaleFile}
    /\ first_write = FALSE
    /\ tas_pc = "start"
    /\ tas_crash = "none"
    /\ tas_file = 0
    /\ tas_group = 0
    /\ sub_df = <<>>
    /\ u_wind_list = <<>>
    /\ v_wind_list = <<>>
    /\ lookup_log = <<>>
    /\ row_log = <<>>

TasCrash(exception) ==
    /\ tas_pc' = "crashed"
    /\ tas_crash' = exception

\* Index labels of the rows of the current flight_id group.
CurGroupIndex ==
    LET flight_id == csv_files[tas_file].flight_id
    IN  GroupIndex(flight_id, GroupKeys(flight_id)[tas_group])

\* lines 53-80: ERA5 download (outside every try), file list, truncation
TasStartup ==
    /\ tas_pc = "start"
    /\ \E res \in {"ok", "raises"} :
         IF res = "raises"
         THEN /\ TasCrash("DownloadError")
              /\ UNCHANGED <<output_file, first_write, tas_file>>
         ELSE /\ output_file' = EmptyFile         \* open(output_file, 'w').close()
              /\ first_write' = TRUE
              /\ tas_file' = 1
              /\ tas_pc' = "file"
              /\ UNCHANGED tas_crash
    /\ UNCHANGED <<csv_files, tas_group, sub_df, u_wind_list, v_wind_list, lookup_log,
                   row_log>>
    /\ UNCHANGED <<batchVars, toolVars>>

\* lines 82-99 and the groupby of line 105: next input file
TasNextFile ==
    /\ tas_pc = "file"
    /\ IF tas_file > Len(csv_files)
       THEN tas_pc' = "done" /\ UNCHANGED tas_group
       ELSE tas_pc' = "group" /\ tas_group' = 1
    /\ UNCHANGED <<csv_files, output_file, first_write, tas_crash, tas_file, sub_df,
                   u_wind_list, v_wind_list, lookup_log, row_log>>
    /\ UNCHANGED <<batchVars, toolVars>>

\* lines 105-107: next flight_id group of the file, empty wind lists
TasBeginFlight ==
    /\ tas_pc = "group"
    /\ IF tas_group > Len(GroupKeys(csv_files[tas_file].flight_id))
       THEN /\ tas_file' = tas_file + 1
            /\ tas_pc' = "file"
            /\ UNCHANGED <<sub_df, u_wind_list, v_wind_list, lookup_log>>
       ELSE /\ sub_df' = <<>>
            /\ u_wind_list' = <<>>
            /\ v_wind_list' = <<>>
            /\ lookup_log' = <<>>
            /\ tas_pc' = "rows"
            /\ UNCHANGED tas_file
    /\ UNCHANGED <<csv_files, output_file, first_write, tas_crash, tas_group, row_log>>
    /\ UNCHANGED <<batchVars, toolVars>>

\* lines 109-123: one row of the flight: try both lookups, append to the lists
TasLookupRow ==
    /\ tas_pc = "rows"
    /\ Len(u_wind_list) < Len(CurGroupIndex)
    /\ \E c \in RowChoices :
         LET w     == WindLookup(c.res, c.wp.wind)
             index == CurGroupIndex[Len(u_wind_list) + 1]
         IN  /\ sub_df' = Append(sub_df,
                     [index       |-> index,
                      flight_id   |-> csv_files[tas_file].flight_id[index],
                      groundspeed |-> Cell(c, "groundspeed"),
                      heading     |-> Cell(c, "heading"),
                      u_wind      |-> NaN,
                      v_wind      |-> NaN])
             /\ u_wind_list' = Append(u_wind_list, w.u)
             /\ v_wind_list' = Append(v_wind_list, w.v)
             /\ lookup_log' = Append(lookup_log, c)
             /\ row_log' = Append(row_log,
                     [file |-> tas_file, index |-> index, row |-> c])
    /\ UNCHANGED <<csv_files, output_file, first_write, tas_pc, tas_crash, tas_file,
                   tas_group>>
    /\ UNCHANGED <<batchVars, toolVars>>

\* lines 125-140: wind columns, column check, formula, append to the output
TasWriteFlight ==
    /\ tas_pc = "rows"
    /\ Len(u_wind_list) = Len(CurGroupIndex)
    /\ IF MissingColumn(csv_files[tas_file])
       THEN /\ TasCrash("ValueError")
            /\ UNCHANGED <<output_file, first_write, tas_group>>
       ELSE /\ output_file' = TasToCsvAppend(output_file,
                                  ProcessedFlight(sub_df, u_wind_list, v_wind_list),
                                  first_write)
            /\ first_write' = FALSE
            /\ tas_group' = tas_group + 1
            /\ tas_pc' = "group"
            /\ UNCHANGED tas_crash
    /\ UNCHANGED <<csv_files, tas_file, sub_df, u_wind_list, v_wind_list, lookup_log,
                   row_log>>
    /\ UNCHANGED <<batchVars, toolVars>>

NextTAS ==
    \/ TasStartup
    \/ TasNextFile
    \/ TasBeginFlight
    \/ TasLookupRow
    \/ TasWriteFlight

SpecTAS == InitTAS /\ [][NextTAS]_vars

\* =========================================== 13_true_air_speed, one waypoint
\* The loop body of lines 96-136 seen for a single row: the pressure of the
\* row, the two sel calls on the wind field, the formula.
\* ------------------------------------------------- altitude to pressure
\* Fixed point of the power of line 96: a real x is kept as x * FixedOne,
\* each operation rounds down.
FixedOne == 2^14

FixMul(a, b) == (a * b) \div FixedOne

\* square root of a fixed-point number
FixRoot(x) == SqrtBits(x * FixedOne, 0, FixedOne)

\* x ** (1 / 2^n)
RECURSIVE FixRootN(_, _)
FixRootN(x, n) == IF n = 0 THEN x ELSE FixRootN(FixRoot(x), n - 1)

\* x ** 5.255 for x >= 0, with 5.255 = 5 + 1/4 + 1/256 + 1/1024 + 1/8192
\* (the binary expansion of the exponent, exact to 5e-6)
Pow5255(x) ==
    LET x2 == FixMul(x, x)
        x5 == FixMul(FixMul(x2, x2), x)
    IN  FixMul(FixMul(FixMul(FixMul(x5, FixRootN(x, 2)), FixRootN(x, 8)),
                      FixRootN(x, 10)), FixRootN(x, 13))

\* df["pressure_hPa"] = 1013.25 * (1 - (df["altitude"] / 44330)) ** 5.255
\* The altitude column is used as it is read (line 95 is commented out).  The
\* pressure is kept in quarters of a hPa: 1013.25 hPa = 4053 quarters.  A
\* negative base under the fractional exponent gives NaN.
PressureHPa(altitude) ==
    IF altitude.nan THEN NaN
    ELSE LET base == ((44330 - altitude.v) * FixedOne) \div 44330
         IN  IF base < 0 THEN NaN
             ELSE Num((4053 * Pow5255(base)) \div FixedOne)

\* ----------------------------------------------------------- the wind field
\* ERA5 pressure levels requested by the script, in hPa
pressure_levels ==
    <<900, 875, 850, 825, 800, 775, 750, 700, 650, 600, 550,
      500, 450, 400, 350, 300, 250, 225, 200, 175, 150, 125, 100>>

\* The coordinates of met_xr: time in minutes after the start of time_bounds,
\* latitude (descending, as ERA5 stores it) and longitude in degrees, level
\* in quarters of a hPa.
GridTime      == <<0, 60, 120>>
GridLatitude  == <<40, 30>>
GridLongitude == <<-120, -110>>
GridLevel     == [i \in DOMAIN pressure_levels |-> 4 * pressure_levels[i]]

GridSamples ==
    [time : DOMAIN GridTime, latitude : DOMAIN GridLatitude,
     longitude : DOMAIN GridLongitude, level : DOMAIN GridLevel]

\* Position of a sample in the field, counted from 0.
SampleNo(s) ==
    (((s.time - 1) * Len(GridLatitude) + (s.latitude - 1)) * Len(GridLongitude)
        + (s.longitude - 1)) * Len(GridLevel) + (s.level - 1)

\* met_xr["eastward_wind"] and met_xr["northward_wind"]: every sample holds
\* its own pair of values.
eastward_wind(s)  == SampleNo(s) - 138
northward_wind(s) == 150 - 2 * SampleNo(s)

Abs(x) == IF x < 0 THEN 0 - x ELSE x

\* Mutant: the coordinate at or below the label (method="pad").
NearestPad(axis, x) ==
    CHOOSE i \in DOMAIN axis :
        IF \E j \in DOMAIN axis : axis[j] <= x
        THEN axis[i] <= x /\ \A j \in DOMAIN axis : axis[j] <= x => axis[j] <= axis[i]
        ELSE \A j \in DOMAIN axis : axis[i] <= axis[j]

\* method="nearest" on one axis: the index of the coordinate closest to the
\* label, the larger coordinate on a tie; no tolerance is given, so a label
\* beyond the ends of the axis gets the end coordinate.
Nearest(axis, x) ==
    CHOOSE i \in DOMAIN axis :
        \A j \in DOMAIN axis :
            \/ Abs(axis[i] - x) < Abs(axis[j] - x)
            \/ Abs(axis[i] - x) = Abs(axis[j] - x) /\ axis[i] >= axis[j]

\* Indices one sel call may pick on an axis: the nearest for a label that is
\* there; for a NaN / NaT label the library either raises or lands on some
\* coordinate.
AxisChoices(axis, label) ==
    IF label.nan THEN DOMAIN axis ELSE {Nearest(axis, label.v)}

\* What .sel(time=, latitude=, longitude=, level=, method="nearest") may do
\* for a row: the sample it selects, or a KeyError.
SelOutcomes(row) ==
    {[found |-> TRUE, time |-> t, latitude |-> y, longitude |-> x, level |-> l] :
        t \in AxisChoices(GridTime, row.time),
        y \in AxisChoices(GridLatitude, row.latitude),
        x \in AxisChoices(GridLongitude, row.longitude),
        l \in AxisChoices(GridLevel, row.pressure_hPa)}
    \cup (IF row.time.nan \/ row.latitude.nan \/ row.longitude.nan
             \/ row.pressure_hPa.nan
          THEN {[found |-> FALSE]} ELSE {})

\* ------------------------------------------------------------------ inputs
Altitudes     == {-500, 0, 1000, 5000, 10000, 13000, 30000, 44330, 45000}
Times         == {NaN, Num(-30), Num(30), Num(100)}
Latitudes     == {Num(33), Num(38), Num(55)}
Longitudes    == {Num(-118), Num(-100)}
Groundspeeds  == {NaN, Num(0), Num(100), Num(250)}
Headings      == {NaN, Num(0), Num(90), Num(180), Num(270)}

WaypointRows ==
    [flight_id : {"F1"}, time : Times, latitude : Latitudes,
     longitude : Longitudes, altitude : {NaN} \cup {Num(a) : a \in Altitudes},
     groundspeed : Groundspeeds, heading : Headings, pressure_hPa : {NaN}]

InitWaypoint ==
    /\ BatchIdle
    /\ TasIdle
    /\ JoinIdle
    /\ AttrIdle
    /\ ConvIdle
    /\ ParetoIdle
    /\ wp \in WaypointRows
    /\ wp_pc = "pressure"
    /\ wp_u_wind = Nothing
    /\ wp_v_wind = Nothing
    /\ wp_out = Nothing
    /\ wp_sel = Nothing

\* line 96
WpPressure ==
    /\ wp_pc = "pressure"
    /\ wp' = [wp EXCEPT !.pressure_hPa = PressureHPa(wp.altitude)]
    /\ wp_pc' = "lookup"
    /\ UNCHANGED <<wp_u_wind, wp_v_wind, wp_out, wp_sel>>
    /\ UNCHANGED <<batchVars, tasVars, joinVars, attrVars, convVars, paretoVars>>

\* lines 110-120: the two sel calls inside the try, NaN for both on an exception
WpLookup ==
    /\ wp_pc = "lookup"
    /\ \E io \in LookupResults, s \in SelOutcomes(wp) :
          LET res  == IF s.found THEN io ELSE "u_raises"
              wind == IF s.found THEN <<eastward_wind(s), northward_wind(s)>>
                      ELSE <<0, 0>>
              w    == WindLookup(res, wind)
          IN  /\ wp_u_wind' = w.u
              /\ wp_v_wind' = w.v
              /\ wp_sel' = [res |-> res, sample |-> s]
    /\ wp_pc' = "formula"
    /\ UNCHANGED <<wp, wp_out>>
    /\ UNCHANGED <<batchVars, tasVars, joinVars, attrVars, convVars, paretoVars>>

\* lines 125-136 for the row
WpFormula ==
    /\ wp_pc = "formula"
    /\ wp_out' = DerivedRow([flight_id   |-> wp.flight_id,
                             groundspeed |-> wp.groundspeed,
                             heading     |-> wp.heading,
                             u_wind      |-> wp_u_wind,
                             v_wind      |-> wp_v_wind])
    /\ wp_pc' = "done"
    /\ UNCHANGED <<wp, wp_u_wind, wp_v_wind, wp_sel>>
    /\ UNCHANGED <<batchVars, tasVars, joinVars, attrVars, convVars, paretoVars>>

NextWaypoint ==
    \/ WpPressure
    \/ WpLookup
    \/ WpFormula

SpecWaypoint == InitWaypoint /\ [][NextWaypoint]_vars

\* ============== 09_aircraft_selection and 00_air_traffic_performance
\* The two scripts share the merge / rename / fillna block (09: lines 78-89,
\* 00: lines 130-141).  00 keeps one more column of the parameter table
\* (nvpm_ei_n), runs the performance model per flight inside a file-level
\* try, and drops every row with a NaN before it saves.
\* Lengths are in centimetres: 34.10 m = 3410.
\* ------------------------------------------------------------------ inputs
\* An empty string cell of a CSV file (NaN in an object column).
NA == "<NA>"

\* aircraft_database_icao24.csv: a1 is a B738, a2 an A321, a3 is listed
\* without a type, a4 is not listed; in the second database a1 is listed twice.
AircraftDbs ==
    { << [icao24 |-> "a1", ICAO |-> "B738"],
         [icao24 |-> "a2", ICAO |-> "A321"],
         [icao24 |-> "a3", ICAO |-> NA] >>,
      << [icao24 |-> "a1", ICAO |-> "B738"],
         [icao24 |-> "a1", ICAO |-> "A321"] >> }

\* ps-aircraft-params: the A321 has no entry in the first table and an entry
\* without span in the second.
WingspanDbs ==
    { << [ICAO |-> "B738", span_m |-> Num(3580), nvpm_ei_n |-> Num(1)],
         [ICAO |-> "A320", span_m |-> Num(3590), nvpm_ei_n |-> Num(1)] >>,
      << [ICAO |-> "B738", span_m |-> Num(3580), nvpm_ei_n |-> Num(1)],
         [ICAO |-> "A321", span_m |-> NaN,       nvpm_ei_n |-> Num(1)] >> }

\* 09 line 54-55: wingspan_df[['ICAO', 'span_m']], span_m renamed to wingspan
WingspanDfSelection(db) ==
    [i \in DOMAIN db |-> [ICAO |-> db[i].ICAO, wingspan |-> db[i].span_m]]

\* 00 line 73-75: wingspan_df[['ICAO', 'span_m', 'nvpm_ei_n']], span_m renamed
WingspanDfPerformance(db) ==
    [i \in DOMAIN db |-> [ICAO |-> db[i].ICAO, wingspan |-> db[i].span_m,
                          nvpm_ei_n |-> db[i].nvpm_ei_n]]

\* Columns the wingspan merge adds to df.
WingspanColumns(s) ==
    IF s = "selection" THEN {"wingspan"} ELSE {"wingspan", "nvpm_ei_n"}

\* Rows of the input flight file: time tells the waypoints apart; altitude
\* stands for the other input columns and may be empty.
InputRow(i, c) ==
    [time |-> i, icao24 |-> c.icao24, flight_id |-> c.flight_id, altitude |-> c.altitude]

InputFlightFiles ==
    LET cells == [icao24 : {"a1", "a2", "a3", "a4"}, flight_id : TasFlightIds,
                  altitude : {Num(10000), NaN}]
    IN  UNION {{[i \in 1..n |-> InputRow(i, q[i])] : q \in [1..n -> cells]} :
                  n \in 1..MaxJoinRows}

\* A second file of the folder: one waypoint of a listed aircraft.
SecondFiles ==
    {<<InputRow(1, [icao24 |-> "a1", flight_id |-> "F1", altitude |-> Num(10000)])>>}

\* The input files of a run: one file, or one file and a second one.
JoinFolders ==
    {<<f>> : f \in InputFlightFiles}
    \cup {<<f, g>> : f \in InputFlightFiles, g \in SecondFiles}

\* The output file an earlier run of the script left for the first input file.
StaleOutput == [exists |-> TRUE, rows |-> <<StaleRow>>]

\* ------------------------------------------------------------------- pandas
RECURSIVE Flatten(_)
Flatten(seqs) == IF seqs = <<>> THEN <<>> ELSE Head(seqs) \o Flatten(Tail(seqs))

\* df.merge(acft_df, on="icao24", how="left"): every left row, in order, once
\* per matching right row, with a missing ICAO when there is none.
MergeAircraft(df, right) ==
    Flatten([i \in DOMAIN df |->
        LET m == SelectSeq(right, LAMBDA a : a.icao24 = df[i].icao24)
        IN  IF m = <<>> THEN << df[i] @@ [ICAO |-> NA] >>
            ELSE [k \in DOMAIN m |-> df[i] @@ [ICAO |-> m[k].ICAO]]])

\* df.merge(wingspan_df, on="ICAO", how="left"): the columns of the right
\* table but ICAO are added, NaN when there is no match.
MergeWingspan(df, right, columns) ==
    Flatten([i \in DOMAIN df |->
        LET m == SelectSeq(right, LAMBDA w : w.ICAO = df[i].ICAO)
        IN  IF m = <<>> THEN << df[i] @@ [c \in columns |-> NaN] >>
            ELSE [k \in DOMAIN m |-> df[i] @@ [c \in columns |-> m[k][c]]]])

\* df.rename(columns={"ICAO": "aircraft_type"})
RenameICAO(r) ==
    [c \in (DOMAIN r \ {"ICAO"}) \cup {"aircraft_type"} |->
        IF c = "aircraft_type" THEN r.ICAO ELSE r[c]]

\* df['aircraft_type'].fillna("A320")
FillNaAircraftType(aircraft_type) ==
    IF aircraft_type = NA THEN "A320" ELSE aircraft_type

\* Mutant: the wingspan column is left as merged.
FillNaWingspanNoDefault(wingspan) == wingspan

\* df['wingspan'].fillna(34.10)
FillNaWingspan(wingspan) == IF wingspan.nan THEN Num(3410) ELSE wingspan

\* rename and the two fillna lines
RenameAndFill(df) ==
    [i \in DOMAIN df |->
        [RenameICAO(df[i]) EXCEPT !.aircraft_type = FillNaAircraftType(@),
                                  !.wingspan = FillNaWingspan(@)]]

\* 00 lines 186-193: the three output columns of the performance model
WithPerformance(flight_group) ==
    [i \in DOMAIN flight_group |->
        flight_group[i] @@ [engine_efficiency |-> Num(1), fuel_flow |-> Num(1),
                            aircraft_mass |-> Num(1)]]

\* Mutant: the except clause saves the flights evaluated so far.
ExceptSaveEvaluated(file, groups) ==
    [exists |-> TRUE, rows |-> Flatten(groups)]

\* 00 lines 211-212: the except clause prints the exception; the output file of
\* the input file stays as it is
ExceptPrint(file, groups) == file

\* A row of df in 00 has a NaN in one of its columns.
HasNaN(r) ==
    \/ r.aircraft_type = NA
    \/ \E c \in {"altitude", "wingspan", "nvpm_ei_n", "engine_efficiency",
                "fuel_flow", "aircraft_mass"} : r[c].nan

\* df.dropna(how='any')
DropNa(df) == SelectSeq(df, LAMBDA r : ~HasNaN(r))

\* flight_id column of df
FlightIdColumn(df) == [i \in DOMAIN df |-> df[i].flight_id]

\* ------------------------------------------------------------------ scripts
InitJoin ==
    /\ BatchIdle
    /\ TasIdle
    /\ WpIdle
    /\ AttrIdle
    /\ ConvIdle
    /\ ParetoIdle
    /\ join_script \in {"selection", "performance"}
    /\ acft_df \in AircraftDbs
    /\ \E db \in WingspanDbs :
          wingspan_df = IF join_script = "selection" THEN WingspanDfSelection(db)
                        ELSE WingspanDfPerformance(db)
    /\ input_files \in JoinFolders
    /\ join_file = 1
    /\ input_file = input_files[1]
    /\ join_df = <<>>
    /\ join_pc = "read"
    /\ join_group = 0
    /\ processed_flight_groups = <<>>
    /\ join_output_file \in {MissingFile, StaleOutput}
    /\ join_error = "none"
    /\ join_output_start = join_output_file
    /\ join_finished = <<>>

\* 09 lines 73-76
SelectionReadFile ==
    /\ join_script = "selection" /\ join_pc = "read"
    /\ join_df' = input_file
    /\ join_pc' = "merge_aircraft"
    /\ UNCHANGED <<join_script, acft_df, wingspan_df, input_file, join_group,
                   processed_flight_groups, join_output_file, join_error>>
    /\ UNCHANGED <<input_files, join_file, join_output_start, join_finished>>
    /\ UNCHANGED <<batchVars, tasVars, wpVars, attrVars, convVars, paretoVars>>

\* 09 line 79
SelectionMergeAircraft ==
    /\ join_script = "selection" /\ join_pc = "merge_aircraft"
    /\ join_df' = MergeAircraft(join_df, acft_df)
    /\ join_pc' = "merge_wingspan"
    /\ UNCHANGED <<join_script, acft_df, wingspan_df, input_file, join_group,
                   processed_flight_groups, join_output_file, join_error>>
    /\ UNCHANGED <<input_files, join_file, join_output_start, join_finished>>
    /\ UNCHANGED <<batchVars, tasVars, wpVars, attrVars, convVars, paretoVars>>

\* 09 line 82
SelectionMergeWingspan ==
    /\ join_script = "selection" /\ join_pc = "merge_wingspan"
    /\ join_df' = MergeWingspan(join_df, wingspan_df, WingspanColumns(join_script))
    /\ join_pc' = "fill"
    /\ UNCHANGED <<join_script, acft_df, wingspan_df, input_file, join_group,
                   processed_flight_groups, join_output_file, join_error>>
    /\ UNCHANGED <<input_files, join_file, join_output_start, join_finished>>
    /\ UNCHANGED <<batchVars, tasVars, wpVars, attrVars, convVars, paretoVars>>

\* 09 lines 85-89
SelectionFillDefaults ==
    /\ join_script = "selection" /\ join_pc = "fill"
    /\ join_df' = RenameAndFill(join_df)
    /\ join_pc' = "save"
    /\ UNCHANGED <<join_script, acft_df, wingspan_df, input_file, join_group,
                   processed_flight_groups, join_output_file, join_error>>
    /\ UNCHANGED <<input_files, join_file, join_output_start, join_finished>>
    /\ UNCHANGED <<batchVars, tasVars, wpVars, attrVars, convVars, paretoVars>>

\* 09 lines 92-93
SelectionSave ==
    /\ join_script = "selection" /\ join_pc = "save"
    /\ join_output_file' = [exists |-> TRUE, rows |-> join_df]
    /\ join_pc' = "done"
    /\ UNCHANGED <<join_script, acft_df, wingspan_df, input_file, join_df, join_group,
                   processed_flight_groups, join_error>>
    /\ UNCHANGED <<input_files, join_file, join_output_start, join_finished>>
    /\ UNCHANGED <<batchVars, tasVars, wpVars, attrVars, convVars, paretoVars>>

\* 00 lines 121-126
PerformanceReadFile ==
    /\ join_script = "performance" /\ join_pc = "read"
    /\ join_df' = input_file
    /\ join_pc' = "merge_aircraft"
    /\ UNCHANGED <<join_script, acft_df, wingspan_df, input_file, join_group,
                   processed_flight_groups, join_output_file, join_error>>
    /\ UNCHANGED <<input_files, join_file, join_output_start, join_finished>>
    /\ UNCHANGED <<batchVars, tasVars, wpVars, attrVars, convVars, paretoVars>>

\* 00 line 131
PerformanceMergeAircraft ==
    /\ join_script = "performance" /\ join_pc = "merge_aircraft"
    /\ join_df' = MergeAircraft(join_df, acft_df)
    /\ join_pc' = "merge_wingspan"
    /\ UNCHANGED <<join_script, acft_df, wingspan_df, input_file, join_group,
                   processed_flight_groups, join_output_file, join_error>>
    /\ UNCHANGED <<input_files, join_file, join_output_start, join_finished>>
    /\ UNCHANGED <<batchVars, tasVars, wpVars, attrVars, convVars, paretoVars>>

\* 00 line 134
PerformanceMergeWingspan ==
    /\ join_script = "performance" /\ join_pc = "merge_wingspan"
    /\ join_df' = MergeWingspan(join_df, wingspan_df, WingspanColumns(join_script))
    /\ join_pc' = "fill"
    /\ UNCHANGED <<join_script, acft_df, wingspan_df, input_file, join_group,
                   processed_flight_groups, join_output_file, join_error>>
    /\ UNCHANGED <<input_files, join_file, join_output_start, join_finished>>
    /\ UNCHANGED <<batchVars, tasVars, wpVars, attrVars, convVars, paretoVars>>

\* 00 lines 137-141 and 163
PerformanceFillDefaults ==
    /\ join_script = "performance" /\ join_pc = "fill"
    /\ join_df' = RenameAndFill(join_df)
    /\ processed_flight_groups' = <<>>
    /\ join_group' = 1
    /\ join_pc' = "groups"
    /\ UNCHANGED <<join_script, acft_df, wingspan_df, input_file, join_output_file,
                   join_error>>
    /\ UNCHANGED <<input_files, join_file, join_output_start, join_finished>>
    /\ UNCHANGED <<batchVars, tasVars, wpVars, attrVars, convVars, paretoVars>>

\* 00 lines 165-196: one flight_id group; Flight(...) and ps_model.eval are
\* inside the file-level try, an exception ends the work on the file
PerformanceFlightGroup ==
    /\ join_script = "performance" /\ join_pc = "groups"
    /\ join_group <= Len(GroupKeys(FlightIdColumn(join_df)))
    /\ \E res \in {"ok", "raises"} :
          IF res = "raises"
          THEN /\ join_pc' = "failed"
               /\ join_error' = "Exception"
               /\ join_output_file' = ExceptPrint(join_output_file, processed_flight_groups)
               /\ UNCHANGED <<processed_flight_groups, join_group>>
          ELSE LET flight_id    == FlightIdColumn(join_df)
                   index        == GroupIndex(flight_id, GroupKeys(flight_id)[join_group])
                   flight_group == [k \in DOMAIN index |-> join_df[index[k]]]
               IN  /\ processed_flight_groups' =
                          Append(processed_flight_groups, WithPerformance(flight_group))
                   /\ join_group' = join_group + 1
                   /\ UNCHANGED <<join_pc, join_error, join_output_file>>
    /\ UNCHANGED <<join_script, acft_df, wingspan_df, input_file, join_df>>
    /\ UNCHANGED <<input_files, join_file, join_output_start, join_finished>>
    /\ UNCHANGED <<batchVars, tasVars, wpVars, attrVars, convVars, paretoVars>>

\* 00 lines 198-209: concat, dropna, to_csv
PerformanceSave ==
    /\ join_script = "performance" /\ join_pc = "groups"
    /\ join_group > Len(GroupKeys(FlightIdColumn(join_df)))
    /\ join_df' = DropNa(Flatten(processed_flight_groups))
    /\ join_output_file' = [exists |-> TRUE, rows |-> join_df']
    /\ join_pc' = "done"
    /\ UNCHANGED <<join_script, acft_df, wingspan_df, input_file, join_group,
                   processed_flight_groups, join_error>>
    /\ UNCHANGED <<input_files, join_file, join_output_start, join_finished>>
    /\ UNCHANGED <<batchVars, tasVars, wpVars, attrVars, convVars, paretoVars>>

\* 09 line 71, 00 line 120: the loop takes the next input file; its output
\* file does not exist yet
JoinNextFile ==
    /\ join_pc \in {"done", "failed"}
    /\ join_file < Len(input_files)
    /\ join_finished' = Append(join_finished,
                               [error  |-> join_error,
                                start  |-> join_output_start,
                                output |-> join_output_file])
    /\ join_file' = join_file + 1
    /\ input_file' = input_files[join_file + 1]
    /\ join_output_file' = MissingFile
    /\ join_output_start' = MissingFile
    /\ join_error' = "none"
    /\ join_pc' = "read"
    /\ UNCHANGED <<join_script, acft_df, wingspan_df, input_files, join_df, join_group,
                   processed_flight_groups>>
    /\ UNCHANGED <<batchVars, tasVars, wpVars, attrVars, convVars, paretoVars>>

NextJoin ==
    \/ SelectionReadFile
    \/ SelectionMergeAircraft
    \/ SelectionMergeWingspan
    \/ SelectionFillDefaults
    \/ SelectionSave
    \/ PerformanceReadFile
    \/ PerformanceMergeAircraft
    \/ PerformanceMergeWingspan
    \/ PerformanceFillDefaults
    \/ PerformanceFlightGroup
    \/ PerformanceSave
    \/ JoinNextFile

SpecJoin == InitJoin /\ [][NextJoin]_vars

\* ========================================================= 17_icao24_attribution
\* ------------------------------------------------------------------ inputs
\* A time cell: a timestamp (day and minute of the day) or empty.
Timestamp(d, m) == [nat |-> FALSE, day |-> d, minute |-> m]
NaT == [nat |-> TRUE, day |-> 0, minute |-> 0]

\* Rows of the main dataset: F1 flown by a1 on day 1 and met again with other
\* values, F2 with a row of values and a row without (the NaN row of a flight
\* without contrail).
MainRows ==
    { [flight_id |-> "F1", icao24 |-> "a1", time |-> Timestamp(1, 600)],
      [flight_id |-> "F1", icao24 |-> "a2", time |-> Timestamp(2, 30)],
      [flight_id |-> "F1", icao24 |-> "a1", time |-> Timestamp(1, 700)],
      [flight_id |-> "F2", icao24 |-> "a2", time |-> Timestamp(2, 30)],
      [flight_id |-> "F2", icao24 |-> NA,   time |-> NaT] }

MainDatasets == UNION {[1..n -> MainRows] : n \in 0..MaxMainRows}

\* Rows of the summary dataset: the flight_id and the summary columns, which
\* tell the rows apart.
SummaryDatasets ==
    UNION {{[i \in 1..n |-> [flight_id |-> q[i], summary |-> i]] :
               q \in [1..n -> {"F1", "F2", "F3"}]} : n \in 1..MaxSummaryRows}

\* ------------------------------------------------------------------- pandas
\* Mutant: no row is dropped.
DropDuplicatesKeepAll(df) == df

\* df.drop_duplicates(subset='flight_id'): the first row of every flight_id
DropDuplicates(df) ==
    LET kept == SelectSeq([i \in DOMAIN df |-> i],
                          LAMBDA i : \A j \in 1..(i - 1) : df[j].flight_id # df[i].flight_id)
    IN  [k \in DOMAIN kept |-> df[kept[k]]]

\* left.merge(right[['flight_id', column]], on='flight_id', how='left')
MergeOnFlightId(left, right, column, missing) ==
    Flatten([i \in DOMAIN left |->
        LET m == SelectSeq(right, LAMBDA r : r.flight_id = left[i].flight_id)
        IN  IF m = <<>> THEN << left[i] @@ (column :> missing) >>
            ELSE [k \in DOMAIN m |-> left[i] @@ (column :> m[k][column])]])

\* pd.to_datetime(...).dt.date: the day without the time of the day
ToDate(time) == IF time.nat THEN [nat |-> TRUE, day |-> 0]
                ELSE [nat |-> FALSE, day |-> time.day]

\* ------------------------------------------------------------------- script
InitAttr ==
    /\ BatchIdle
    /\ TasIdle
    /\ WpIdle
    /\ JoinIdle
    /\ ConvIdle
    /\ ParetoIdle
    /\ df1 \in SummaryDatasets
    /\ df2 \in MainDatasets
    /\ df2_dedup = <<>>
    /\ df1_updated = <<>>
    /\ attr_pc = "dedup"
    /\ attr_crash = "none"
    /\ attr_output_file = [exists |-> FALSE, rows |-> <<>>]

\* line 34
AttrDropDuplicates ==
    /\ attr_pc = "dedup"
    /\ df2_dedup' = DropDuplicates(df2)
    /\ attr_pc' = "merge_icao24"
    /\ UNCHANGED <<df1, df2, df1_updated, attr_crash, attr_output_file>>
    /\ UNCHANGED <<batchVars, tasVars, wpVars, joinVars, convVars, paretoVars>>

\* line 37
AttrMergeIcao24 ==
    /\ attr_pc = "merge_icao24"
    /\ df1_updated' = MergeOnFlightId(df1, df2_dedup, "icao24", NA)
    /\ attr_pc' = "merge_time"
    /\ UNCHANGED <<df1, df2, df2_dedup, attr_crash, attr_output_file>>
    /\ UNCHANGED <<batchVars, tasVars, wpVars, joinVars, convVars, paretoVars>>

\* line 40
AttrMergeTime ==
    /\ attr_pc = "merge_time"
    /\ df1_updated' = MergeOnFlightId(df1_updated, df2_dedup, "time", NaT)
    /\ attr_pc' = "to_date"
    /\ UNCHANGED <<df1, df2, df2_dedup, attr_crash, attr_output_file>>
    /\ UNCHANGED <<batchVars, tasVars, wpVars, joinVars, convVars, paretoVars>>

\* line 43: pd.to_datetime has no errors= argument, it may raise on the column
AttrToDate ==
    /\ attr_pc = "to_date"
    /\ \E res \in {"ok", "raises"} :
          IF res = "raises"
          THEN /\ attr_pc' = "crashed"
               /\ attr_crash' = "ValueError"
               /\ UNCHANGED df1_updated
          ELSE /\ df1_updated' = [i \in DOMAIN df1_updated |->
                                     [df1_updated[i] EXCEPT !.time = ToDate(@)]]
               /\ attr_pc' = "save"
               /\ UNCHANGED attr_crash
    /\ UNCHANGED <<df1, df2, df2_dedup, attr_output_file>>
    /\ UNCHANGED <<batchVars, tasVars, wpVars, joinVars, convVars, paretoVars>>

\* line 46
AttrSave ==
    /\ attr_pc = "save"
    /\ attr_output_file' = [exists |-> TRUE, rows |-> df1_updated]
    /\ attr_pc' = "done"
    /\ UNCHANGED <<df1, df2, df2_dedup, df1_updated, attr_crash>>
    /\ UNCHANGED <<batchVars, tasVars, wpVars, joinVars, convVars, paretoVars>>

NextAttr ==
    \/ AttrDropDuplicates
    \/ AttrMergeIcao24
    \/ AttrMergeTime
    \/ AttrToDate
    \/ AttrSave

SpecAttr == InitAttr /\ [][NextAttr]_vars

\* ================================================================ 04_convergence
\* ------------------------------------------------------------------ inputs
\* Rows of the emission datasets: flight_id and ef.  F2 has a row without ef
\* (the NaN row of a flight without contrail).
EfRows ==
    { [flight_id |-> "F1", ef |-> Num(5)],
      [flight_id |-> "F2", ef |-> Num(3)],
      [flight_id |-> "F2", ef |-> NaN],
      [flight_id |-> "F3", ef |-> Num(1)] }

EfDatasets(n) == [1..n -> EfRows]

\* Row counts of the three files, MaxEfRows rows together.
EfFileSizes ==
    {t \in (0..MaxEfRows) \X (0..MaxEfRows) \X (0..MaxEfRows) :
        t[1] + t[2] + t[3] <= MaxEfRows}

\* ------------------------------------------------------------------- pandas
\* set(df['flight_id'])
FlightIdSet(df) == {df[i].flight_id : i \in DOMAIN df}

\* Mutant: the flights found in any of the datasets.
CommonFlightIdsAny(a, b, c) == FlightIdSet(a) \cup FlightIdSet(b) \cup FlightIdSet(c)

\* set(df1['flight_id']).intersection(set(df2['flight_id']), set(df3['flight_id']))
CommonFlightIds(a, b, c) == FlightIdSet(a) \cap FlightIdSet(b) \cap FlightIdSet(c)

\* df[df['flight_id'].isin(common_flight_ids)]
IsIn(df, ids) == SelectSeq(df, LAMBDA r : r.flight_id \in ids)

\* Series.sum(): the missing values are skipped, an empty sum is 0
RECURSIVE SumSkipNa(_)
SumSkipNa(values) ==
    IF values = <<>> THEN 0
    ELSE (IF Head(values).nan THEN 0 ELSE Head(values).v) + SumSkipNa(Tail(values))

\* df.groupby("flight_id")["ef"].sum().reset_index()
GroupbySumEf(df) ==
    LET flight_id == FlightIdColumn(df)
        keys      == GroupKeys(flight_id)
    IN  [k \in DOMAIN keys |->
            LET index == GroupIndex(flight_id, keys[k])
            IN  [flight_id |-> keys[k],
                 ef |-> Num(SumSkipNa([n \in DOMAIN index |-> df[index[n]].ef]))]]

\* ------------------------------------------------------------------- script
InitConv ==
    /\ BatchIdle
    /\ TasIdle
    /\ WpIdle
    /\ JoinIdle
    /\ AttrIdle
    /\ ParetoIdle
    /\ \E t \in EfFileSizes :
          /\ conv_df1 \in EfDatasets(t[1])
          /\ conv_df2 \in EfDatasets(t[2])
          /\ conv_df3 \in EfDatasets(t[3])
    /\ conv_files = <<conv_df1, conv_df2, conv_df3>>
    /\ common_flight_ids = {}
    /\ df1_summed = <<>>
    /\ df2_summed = <<>>
    /\ df3_summed = <<>>
    /\ conv_pc = "common"

\* line 40
ConvCommon ==
    /\ conv_pc = "common"
    /\ common_flight_ids' = CommonFlightIds(conv_df1, conv_df2, conv_df3)
    /\ conv_pc' = "filter"
    /\ UNCHANGED <<conv_files, conv_df1, conv_df2, conv_df3, df1_summed, df2_summed,
                   df3_summed>>
    /\ UNCHANGED <<batchVars, tasVars, wpVars, joinVars, attrVars, paretoVars>>

\* lines 43-45
ConvFilter ==
    /\ conv_pc = "filter"
    /\ conv_df1' = IsIn(conv_df1, common_flight_ids)
    /\ conv_df2' = IsIn(conv_df2, common_flight_ids)
    /\ conv_df3' = IsIn(conv_df3, common_flight_ids)
    /\ conv_pc' = "sum"
    /\ UNCHANGED <<conv_files, common_flight_ids, df1_summed, df2_summed, df3_summed>>
    /\ UNCHANGED <<batchVars, tasVars, wpVars, joinVars, attrVars, paretoVars>>

\* lines 48-50
ConvSum ==
    /\ conv_pc = "sum"
    /\ df1_summed' = GroupbySumEf(conv_df1)
    /\ df2_summed' = GroupbySumEf(conv_df2)
    /\ df3_summed' = GroupbySumEf(conv_df3)
    /\ conv_pc' = "sort"
    /\ UNCHANGED <<conv_files, conv_df1, conv_df2, conv_df3, common_flight_ids>>
    /\ UNCHANGED <<batchVars, tasVars, wpVars, joinVars, attrVars, paretoVars>>

NextConv ==
    \/ ConvCommon
    \/ ConvFilter
    \/ ConvSum

SpecConv == InitConv /\ [][NextConv]_vars

\* ============================================================ 03_post_processing
\* The Pareto table with 'Others', lines 113-132.  EF totals are integers.  A
\* cumulative percentage is the quotient it was computed as: a fraction
\* num / den, or the inf or NaN a zero total gives.
\* ------------------------------------------------------------------ inputs
\* EF totals of a flight: warming, none, cooling.
EfTotals == {-3, 0, 1, 4}

\* ------------------------------------------------------------------- pandas
\* df.sort_values("ef", ascending=False): rows of equal ef keep their order
SortValues(df) ==
    LET before(i, j) == df[i].ef > df[j].ef \/ (df[i].ef = df[j].ef /\ i < j)
        place(i)     == Cardinality({j \in DOMAIN df : before(j, i)}) + 1
    IN  [k \in DOMAIN df |-> df[CHOOSE i \in DOMAIN df : place(i) = k]]

\* df["ef"].sum()
RECURSIVE SumEf(_)
SumEf(df) == IF df = <<>> THEN 0 ELSE Head(df).ef + SumEf(Tail(df))

\* df["ef"].cumsum() / df["ef"].sum() * 100: division by a zero total gives
\* NaN for 0 / 0 and a signed inf otherwise, without raising
WithCumulativePercentage(df) ==
    LET total == SumEf(df)
    IN  [i \in DOMAIN df |->
            LET cumsum == SumEf(SubSeq(df, 1, i))
            IN  [flight_id |-> df[i].flight_id, ef |-> df[i].ef,
                 cumulative_percentage |->
                     IF total # 0 THEN [kind |-> "num", num |-> cumsum * 100, den |-> total]
                     ELSE IF cumsum = 0 THEN [kind |-> "nan", num |-> 0, den |-> 0]
                     ELSE [kind |-> "inf", num |-> cumsum, den |-> 0]]]

\* p <= t for a float p: false for NaN
LessEqual(p, t) ==
    CASE p.kind = "nan" -> FALSE
      [] p.kind = "inf" -> p.num < 0
      [] p.kind = "num" -> IF p.den > 0 THEN p.num <= t * p.den ELSE p.num >= t * p.den

\* p > t for a float p: false for NaN
Greater(p, t) ==
    CASE p.kind = "nan" -> FALSE
      [] p.kind = "inf" -> p.num > 0
      [] p.kind = "num" -> IF p.den > 0 THEN p.num > t * p.den ELSE p.num < t * p.den

\* ------------------------------------------------------------------- script
\* lines 45-53: summed_ef, one row per flight_id, in descending order of ef
InitPareto ==
    /\ BatchIdle
    /\ TasIdle
    /\ WpIdle
    /\ JoinIdle
    /\ AttrIdle
    /\ ConvIdle
    /\ \E n \in 1..MaxParetoFlights :
          \E ef \in [1..n -> EfTotals] :
              summed_ef = SortValues([i \in 1..n |->
                                         [flight_id |-> AllFlightIds[i], ef |-> ef[i]]])
    /\ sorted_ef = <<>>
    /\ top_contributors = <<>>
    /\ others = <<>>
    /\ others_sum = 0
    /\ pareto_pc = "partition"

\* lines 114-123: sort, cumulative percentage, the two filters, others_sum
ParetoPartition ==
    /\ pareto_pc = "partition"
    /\ sorted_ef' = WithCumulativePercentage(SortValues(summed_ef))
    /\ top_contributors' =
          SelectSeq(sorted_ef', LAMBDA r : LessEqual(r.cumulative_percentage, threshold))
    /\ others' =
          SelectSeq(sorted_ef', LAMBDA r : Greater(r.cumulative_percentage, threshold))
    /\ others_sum' = SumEf(others')
    /\ pareto_pc' = "append"
    /\ UNCHANGED summed_ef
    /\ UNCHANGED <<batchVars, tasVars, wpVars, joinVars, attrVars, convVars>>

\* lines 126-132: the 'Others' row, the cumulative percentage recalculated
ParetoAppendOthers ==
    /\ pareto_pc = "append"
    /\ top_contributors' =
          WithCumulativePercentage(
              Append(top_contributors, [flight_id |-> "Others", ef |-> others_sum]))
    /\ pareto_pc' = "done"
    /\ UNCHANGED <<summed_ef, sorted_ef, others, others_sum>>
    /\ UNCHANGED <<batchVars, tasVars, wpVars, joinVars, attrVars, convVars>>

NextPareto ==
    \/ ParetoPartition
    \/ ParetoAppendOthers

SpecPareto == InitPareto /\ [][NextPareto]_vars

\* ====================================================================== claims
\* Rows appended to the main output file since the current run began.
AppendedRows ==
    SubSeq(output_csv_file.rows, Len(start_rows) + 1, Len(output_csv_file.rows))

\* flight_id column of the main output file as it was when the run began.
StartFlightIds == {start_rows[i].flight_id : i \in 2..Len(start_rows)}

HeaderCount(file) == Cardinality({i \in 1..Len(file.rows) : file.rows[i].kind = "header"})

AllAttemptsFailed == attempt_log = <<"failed", "failed", "failed">>

\* ------------------------------------------------------------------------- C1
\* What C1 asks of a step that calls the external library for a flight.
C1_FlightStep ==
    pc \in {"flightctor", "model"} =>
        /\ pc' # "crashed"
        /\ (pc = "model" /\ outcome' = "raise") =>
              /\ \E hdr \in {<<>>, <<HeaderRow>>} :
                    output_csv_file'.rows =
                        output_csv_file.rows \o hdr \o
                        <<[kind |-> "nan",
                           flight_id |-> [id |-> CurFlight, suffix |-> "_ERROR"]]>>
              /\ pc' = "flight"
              /\ flight_idx' = flight_idx + 1

\* C1: when the model raises for a flight, exactly one row is appended to the
\* main output, with flight_id + "_ERROR" and NaN elsewhere, and the loop goes
\* on to the next flight; no per-flight exception of the external library
\* aborts the batch.
C1_ExceptionsNeverAbort == [][C1_FlightStep]_vars

\* ------------------------------------------------------------------------- C2
\* C2: when the batch loop has finished, every flight it went through has its
\* record among the rows appended in this run: result rows, a NaN row with the
\* plain flight_id (no contrail), or a NaN row with flight_id + "_ERROR".
C2_EveryIteratedFlightRecorded ==
    pc = "done" =>
        \A i \in 1..Len(iterated) :
            \E j \in 1..Len(AppendedRows) :
                LET row == AppendedRows[j]
                    it  == iterated[i]
                IN  /\ row.flight_id.id = it.fid
                    /\ CASE it.outcome = "result" ->
                              row.kind = "result" /\ row.flight_id.suffix = ""
                         [] it.outcome = "none" ->
                              row.kind = "nan" /\ row.flight_id.suffix = ""
                         [] it.outcome = "raise" ->
                              row.kind = "nan" /\ row.flight_id.suffix = "_ERROR"

\* A finished run that went through a flight without contrail and a failing one.
C2_Witness ==
    /\ pc = "done"
    /\ \E i, j \in 1..Len(iterated) :
          iterated[i].outcome = "none" /\ iterated[j].outcome = "raise"

\* ------------------------------------------------------------------------- C3
\* C3: a flight_id that is in the flight_id column of the main output when the
\* run starts is excluded: the model is not invoked for it and no row is
\* appended for it in this run.
C3_ExistingFlightsExcluded ==
    \A f \in FlightIds :
        [id |-> f, suffix |-> ""] \in StartFlightIds =>
            /\ evals[f] = 0
            /\ \A j \in 1..Len(AppendedRows) : AppendedRows[j].flight_id.id # f

\* A second run that finished, with a recorded flight in its input and another
\* flight evaluated.
C3_Witness ==
    /\ run = 2 /\ pc = "done"
    /\ \E f \in FlightIds :
          /\ [id |-> f, suffix |-> ""] \in StartFlightIds
          /\ \E k \in 1..Len(inputFiles) :
                \E n \in 1..Len(inputFiles[k]) : inputFiles[k][n] = f
    /\ iterated # <<>>

\* ------------------------------------------------------------------------- C4
\* C4: in one run of 06_route_cocip the model is invoked at most once per
\* flight_id, also when the flight_id occurs in two input files.
C4_AtMostOneEvaluationPerFlight ==
    script = "route" => \A f \in FlightIds : evals[f] <= 1

\* ------------------------------------------------------------------------- C5
\* C5: at most 3 download attempts per flight; the first attempt that opens
\* both datasets ends the retrying; 30 seconds of sleep after each failed
\* attempt but the third; no exception leaves the retry loop.
C5_RetryPolicy ==
    script = "route" =>
        LET n == Len(attempt_log)
            failures == Cardinality({i \in 1..n : attempt_log[i] = "failed"})
        IN  /\ n <= 3
            /\ \A i \in 1..n : attempt_log[i] = "ok" => i = n
            /\ pc = "download" =>
                  /\ n < 3
                  /\ attempt = n + 1
                  /\ \A i \in 1..n : attempt_log[i] = "failed"
            /\ slept = 30 * (IF failures = 3 THEN 2 ELSE failures)
            /\ crash \in {"none", "EmptyDataError", "FlightError"}

\* Three failed attempts, two sleeps, and the script has left the loop.
C5_Witness ==
    /\ script = "route"
    /\ AllAttemptsFailed
    /\ slept = 60
    /\ pc = "flightctor"

\* ------------------------------------------------------------------------- C6
\* C6: after three failed attempts the model step of the flight runs with the
\* datasets bound by the most recent successful download of an earlier flight.
C6_StaleDataOfLastSuccess ==
    (script = "route" /\ pc = "model" /\ AllAttemptsFailed /\ last_success # Unbound) =>
        /\ met = last_success
        /\ rad = last_success

\* ------------------------------------------------------------------------- C7
\* C7: in 06_route_cocip the main and the summary output each hold exactly one
\* header row, their first row, once anything has been appended to them,
\* whatever the number of runs and the outcomes of the flights.
C7_HeaderOnceRoute ==
    script = "route" =>
        \A file \in {output_csv_file, summary_output_csv_file} :
            file.rows # <<>> =>
                /\ file.rows[1].kind = "header"
                /\ HeaderCount(file) = 1

\* A second run has appended to the main output left by the first, and the
\* summary output has received rows in both runs.
C7_Witness ==
    /\ script = "route" /\ run = 2
    /\ start_rows # <<>>
    /\ Len(output_csv_file.rows) > Len(start_rows)
    /\ Len(summary_output_csv_file.rows) = 3

\* ------------------------------------------------------------------------- C8
\* C8: the output of 02_traffic_cocip never holds more than one header row,
\* also when a run appends to the file left by a previous run.
C8_HeaderOnceTraffic ==
    script = "traffic" => HeaderCount(output_csv_file) <= 1

\* ------------------------------------------------------------------------- C9
\* Data rows of the output file of 13_true_air_speed.
TasDataRows == SelectSeq(output_file.rows, LAMBDA r : r.kind = "data")

\* C9: a row whose wind lookup raises gets NaN u_wind, v_wind and true_airspeed;
\* the lookup never ends the run, and every row of every flight of every file
\* is written.
C9_LookupFailureGivesNaN ==
    /\ \A i \in 1..Len(lookup_log) :
          lookup_log[i].res # "ok" => u_wind_list[i].nan /\ v_wind_list[i].nan
    /\ (tas_pc \in {"group", "file", "done"} /\ lookup_log # <<>>) =>
          LET n    == Len(lookup_log)
              base == Len(TasDataRows) - n
          IN  /\ base >= 0
              /\ \A i \in 1..n :
                    lookup_log[i].res # "ok" =>
                        /\ TasDataRows[base + i].u_wind.nan
                        /\ TasDataRows[base + i].v_wind.nan
                        /\ TasDataRows[base + i].true_airspeed.nan
    /\ tas_pc = "crashed" =>
          \/ tas_crash = "DownloadError"
          \/ tas_crash = "ValueError" /\ ~csv_files[tas_file].has_columns
    /\ tas_pc = "done" => Len(TasDataRows) = FolderRows(csv_files)

\* The run finished; a row whose lookup failed was written with NaN and a
\* later row was written with a true airspeed.
C9_Witness ==
    /\ tas_pc = "done"
    /\ \E i, j \in 1..Len(TasDataRows) :
          /\ i < j
          /\ TasDataRows[i].true_airspeed.nan
          /\ ~TasDataRows[j].true_airspeed.nan

\* ------------------------------------------------------------------------ C10
\* C10: true_airspeed = sqrt((GS*sin(heading) - u_wind)^2 + (GS*cos(heading) -
\* v_wind)^2), heading in degrees; heading 0, groundspeed 250 and wind (0, 50)
\* give 200.
C10_TrueAirspeedFormula ==
    \A i \in 1..Len(TasDataRows) :
        LET r  == TasDataRows[i]
            gs == r.groundspeed.v
            h  == r.heading.v
            dx == (CASE h = 90 -> gs [] h = 270 -> 0 - gs [] OTHER -> 0) - r.u_wind.v
            dy == (CASE h = 0 -> gs [] h = 180 -> 0 - gs [] OTHER -> 0) - r.v_wind.v
            t  == r.true_airspeed.v
        IN  ~(r.u_wind.nan \/ r.v_wind.nan \/ r.groundspeed.nan \/ r.heading.nan) =>
                /\ ~r.true_airspeed.nan
                /\ t >= 0
                /\ t * t <= dx * dx + dy * dy
                /\ dx * dx + dy * dy < (t + 1) * (t + 1)
                /\ (h = 0 /\ gs = 250 /\ r.u_wind.v = 0 /\ r.v_wind.v = 50) => t = 200

\* A written flight of 3 waypoints, each with heading 0, groundspeed 250 and
\* wind (0, 50), each with true airspeed 200.
C10_Witness ==
    \E i \in 1..(Len(TasDataRows) - 2) :
        \A k \in {i, i + 1, i + 2} :
            LET r == TasDataRows[k]
            IN  /\ r.flight_id = TasDataRows[i].flight_id
                /\ r.heading = Num(0) /\ r.groundspeed = Num(250)
                /\ r.u_wind = Num(0) /\ r.v_wind = Num(50)
                /\ r.true_airspeed = Num(200)

\* ------------------------------------------------------------------------ C11
\* C11: a waypoint with groundspeed 0 gets true_airspeed = sqrt(u_wind^2 +
\* v_wind^2) whatever its heading (the square root to the integer below; NaN
\* when the wind is NaN).
C11_ZeroGroundspeedGivesWindSpeed ==
    (wp_pc = "done" /\ wp.groundspeed = Num(0) /\ ~wp.heading.nan) =>
        LET u == wp_out.u_wind
            v == wp_out.v_wind
            t == wp_out.true_airspeed
        IN  /\ u = wp_u_wind /\ v = wp_v_wind
            /\ (u.nan \/ v.nan) => t.nan
            /\ ~(u.nan \/ v.nan) =>
                  /\ ~t.nan
                  /\ t.v >= 0
                  /\ t.v * t.v <= u.v * u.v + v.v * v.v
                  /\ u.v * u.v + v.v * v.v < (t.v + 1) * (t.v + 1)

\* A waypoint with groundspeed 0 flying south in a wind of more than 100.
C11_Witness ==
    /\ wp_pc = "done"
    /\ wp.groundspeed = Num(0) /\ wp.heading = Num(180)
    /\ wp_sel.res = "ok"
    /\ wp_out.true_airspeed.v > 100

\* ------------------------------------------------------------------------ C12
\* C12: every written row has a true_airspeed that is >= 0 or NaN, never
\* negative; it is NaN exactly when the wind lookup of the row failed or its
\* groundspeed or heading is missing.
C12_TrueAirspeedNonNegativeOrNaN ==
    /\ Len(TasDataRows) <= Len(row_log)
    /\ \A i \in 1..Len(TasDataRows) :
          LET r == TasDataRows[i]
              c == row_log[i].row
          IN  /\ r.flight_id = csv_files[row_log[i].file].flight_id[row_log[i].index]
              /\ r.true_airspeed.nan <=>
                    (c.res # "ok" \/ c.missing \in {"groundspeed", "heading"})
              /\ ~r.true_airspeed.nan => r.true_airspeed.v >= 0

\* Written: a row whose lookup failed, a row without heading, a row without
\* groundspeed, each with NaN, and in the same run a row with a true airspeed.
C12_Witness ==
    /\ tas_pc = "done"
    /\ \E i, j, k \in 1..Len(TasDataRows) :
          /\ row_log[i].row.res # "ok" /\ TasDataRows[i].true_airspeed.nan
          /\ row_log[j].row.missing # "none" /\ TasDataRows[j].true_airspeed.nan
          /\ row_log[k].row.res = "ok" /\ row_log[k].row.missing = "none"
          /\ TasDataRows[k].true_airspeed.v > 0

\* ------------------------------------------------------------------------ C13
\* a > b on floats: false when either side is NaN.
FGreater(a, b) == ~a.nan /\ ~b.nan /\ a.v > b.v

\* C13: the pressure of line 96 is strictly decreasing in altitude (for any
\* two waypoint altitudes a1 < a2, pressure(a1) > pressure(a2)) and is exactly
\* 1013.25 hPa (4053 quarters) at altitude 0.
C13_PressureMonotoneDecreasing ==
    (wp_pc # "pressure" /\ ~wp.altitude.nan) =>
        /\ wp.altitude = Num(0) => wp.pressure_hPa = Num(4053)
        /\ \A a \in Altitudes :
              /\ wp.altitude.v < a => FGreater(wp.pressure_hPa, PressureHPa(Num(a)))
              /\ a < wp.altitude.v => FGreater(PressureHPa(Num(a)), wp.pressure_hPa)

\* ------------------------------------------------------------------------ C14
\* No coordinate of the axis is strictly nearer to x than the i-th.
IsNearestOn(axis, i, x) ==
    \A j \in DOMAIN axis : Abs(axis[i] - x) <= Abs(axis[j] - x)

\* C14: for a waypoint with time, latitude, longitude and pressure, the lookup
\* is not rejected by sel, also outside the range of the grid, and when no
\* call raises, u_wind and v_wind are the eastward and northward wind of one
\* and the same grid sample, whose time, latitude, longitude and level are
\* each the nearest coordinate of their axis (unblended sample values).
C14_NearestNeighbourLookup ==
    (wp_pc \in {"formula", "done"} /\ ~wp.time.nan /\ ~wp.pressure_hPa.nan) =>
        /\ wp_sel.sample.found
        /\ wp_sel.res = "ok" =>
              \E s \in GridSamples :
                  /\ IsNearestOn(GridTime, s.time, wp.time.v)
                  /\ IsNearestOn(GridLatitude, s.latitude, wp.latitude.v)
                  /\ IsNearestOn(GridLongitude, s.longitude, wp.longitude.v)
                  /\ IsNearestOn(GridLevel, s.level, wp.pressure_hPa.v)
                  /\ wp_u_wind = Num(eastward_wind(s))
                  /\ wp_v_wind = Num(northward_wind(s))

\* A waypoint before the first grid time, north and east of the grid and below
\* its lowest level (1074 hPa) has the winds of the corner sample (time 0,
\* latitude 40, longitude -110, level 900 hPa).
C14_Witness ==
    /\ wp_pc = "done"
    /\ wp.time = Num(-30) /\ wp.latitude = Num(55) /\ wp.longitude = Num(-100)
    /\ wp.altitude = Num(-500) /\ wp.pressure_hPa.v > 4 * 900
    /\ wp_sel.res = "ok"
    /\ LET corner == [time |-> 1, latitude |-> 1, longitude |-> 2, level |-> 1]
       IN  /\ wp_u_wind = Num(eastward_wind(corner))
           /\ wp_v_wind = Num(northward_wind(corner))

\* ------------------------------------------------------------------------ C15
\* The frame obtained by processing, on its own, the rows of flight f of input
\* file k: the rows of the file with that flight_id, in file order, each with
\* the wind the field gives for it and the derived columns.
ProcessedSeparately(k, f) ==
    LET flight_id == csv_files[k].flight_id
        own       == SelectSeq([i \in DOMAIN flight_id |-> i],
                               LAMBDA i : flight_id[i] = f)
        Entry(i)  == CHOOSE n \in DOMAIN row_log :
                         row_log[n].file = k /\ row_log[n].index = i
    IN  [n \in DOMAIN own |->
            LET c == row_log[Entry(own[n])].row
                w == WindLookup(c.res, c.wp.wind)
            IN  DerivedRow([flight_id   |-> f,
                            groundspeed |-> Cell(c, "groundspeed"),
                            heading     |-> Cell(c, "heading"),
                            u_wind      |-> w.u,
                            v_wind      |-> w.v])]

\* The per-flight frames of file k concatenated in flight_id-sorted order,
\* from the i-th flight_id on.
RECURSIVE ConcatSeparately(_, _)
ConcatSeparately(k, i) ==
    IF i > Len(AllFlightIds) THEN <<>>
    ELSE ProcessedSeparately(k, AllFlightIds[i]) \o ConcatSeparately(k, i + 1)

\* C15: the rows written for an input file are the concatenation, in
\* flight_id-sorted order, of the frames obtained by processing each flight's
\* rows on their own: a flight's rows depend on that flight's rows and the
\* wind field only.
C15_GroupwiseIndependence ==
    \A k \in DOMAIN csv_files :
        (tas_pc # "start" /\ tas_file > k) =>
            LET base == FolderRows(SubSeq(csv_files, 1, k - 1))
            IN  SubSeq(TasDataRows, base + 1, base + Len(csv_files[k].flight_id))
                    = ConcatSeparately(k, 1)

\* A finished run over a file whose rows alternate between two flights, the
\* later flight_id first.
C15_Witness ==
    /\ tas_pc = "done"
    /\ \E k \in DOMAIN csv_files : csv_files[k].flight_id = <<"F2", "F1", "F2">>
    /\ Len(TasDataRows) = 3
    /\ TasDataRows[1].flight_id = "F1"
    /\ TasDataRows[2] # TasDataRows[3]

\* ------------------------------------------------------------------------ C16
\* What C16 asks of one step of 13_true_air_speed.
C16_Step ==
    \* the startup empties the output file, whatever an earlier run left
    /\ (tas_pc = "start" /\ tas_pc' = "file") => output_file' = EmptyFile
    \* a computed flight is appended at once: the file as it was, the header if
    \* this is the first block of the run, the rows of the flight
    /\ (tas_pc = "rows" /\ tas_pc' = "group") =>
          LET hdr   == IF output_file.rows = <<>> THEN <<[kind |-> "header"]>> ELSE <<>>
              old   == Len(output_file.rows) + Len(hdr)
              block == SubSeq(output_file'.rows, old + 1, Len(output_file'.rows))
              key   == GroupKeys(csv_files[tas_file].flight_id)[tas_group]
          IN  /\ SubSeq(output_file'.rows, 1, old) = output_file.rows \o hdr
              /\ Len(block) = Len(CurGroupIndex)
              /\ \A i \in DOMAIN block :
                    block[i].kind = "data" /\ block[i].flight_id = key
    \* nothing else writes to the file
    /\ ~(tas_pc = "start" /\ tas_pc' = "file") /\ ~(tas_pc = "rows" /\ tas_pc' = "group")
          => output_file' = output_file
    \* the finished file: one header row, then the blocks in processing order,
    \* no row of an earlier run
    /\ tas_pc' = "done" =>
          /\ output_file'.rows[1].kind = "header"
          /\ HeaderCount(output_file') = 1
          /\ Len(output_file'.rows) = 1 + Len(row_log')
          /\ \A i \in DOMAIN row_log' :
                LET r == output_file'.rows[i + 1]
                    e == row_log'[i]
                IN  /\ r.kind = "data"
                    /\ r.flight_id = csv_files[e.file].flight_id[e.index]

\* C16: the output file is emptied at the start of the run, the block of each
\* flight is appended as soon as the flight is computed, the header goes with
\* the first appended block only, and the finished file is one header row
\* followed by the blocks in processing order, with no row of an earlier run.
C16_IncrementalOutput == [][C16_Step]_vars

\* A finished run over two input files: one header, then three rows of at
\* least two blocks.
C16_Witness ==
    /\ tas_pc = "done"
    /\ Len(csv_files) = 2
    /\ HeaderCount(output_file) = 1
    /\ Len(TasDataRows) = 3
    /\ output_file.rows[2].flight_id # output_file.rows[4].flight_id

\* ------------------------------------------------------------------------ C17
\* Aircraft types the database lists for an icao24 (NA for a listing without
\* a type).
ListedTypes(icao24) ==
    {acft_df[k].ICAO : k \in {n \in DOMAIN acft_df : acft_df[n].icao24 = icao24}}

\* Spans the parameter table holds for an aircraft type.
ListedSpans(type) ==
    {wingspan_df[k].wingspan : k \in {n \in DOMAIN wingspan_df : wingspan_df[n].ICAO = type}}

\* C17: in the file saved by 09_aircraft_selection every input waypoint is
\* there (left join), a waypoint whose icao24 has no aircraft type has
\* aircraft_type 'A320', a waypoint whose type has no wingspan has wingspan
\* 34.10, matched waypoints have the values of the databases, and no row has a
\* missing aircraft_type or wingspan.
C17_AircraftJoinWithDefaults ==
    (join_script = "selection" /\ join_pc = "done") =>
        LET out == join_output_file.rows
        IN  /\ join_output_file.exists
            /\ \A i \in DOMAIN input_file :
                  \E j \in DOMAIN out :
                      /\ out[j].time = input_file[i].time
                      /\ out[j].icao24 = input_file[i].icao24
                      /\ out[j].flight_id = input_file[i].flight_id
                      /\ out[j].altitude = input_file[i].altitude
            /\ \A j \in DOMAIN out :
                  LET r     == out[j]
                      types == ListedTypes(r.icao24) \ {NA}
                      spans == {s \in ListedSpans(r.aircraft_type) : ~s.nan}
                  IN  /\ r.aircraft_type # NA
                      /\ ~r.wingspan.nan
                      /\ r.time \in DOMAIN input_file
                      /\ r.icao24 = input_file[r.time].icao24
                      /\ types = {} => r.aircraft_type = "A320"
                      /\ r.aircraft_type \in types \cup {"A320"}
                      /\ r.aircraft_type = "A320" =>
                            (ListedTypes(r.icao24) = {} \/ NA \in ListedTypes(r.icao24))
                      /\ IF r.aircraft_type \in types /\ spans # {}
                         THEN r.wingspan \in spans
                         ELSE r.wingspan = Num(3410)

\* Saved: a waypoint of an aircraft that is not in the database, with 'A320'
\* and 34.10, next to a waypoint of a listed B738 with its span of 35.80.
C17_Witness ==
    /\ join_script = "selection" /\ join_pc = "done"
    /\ \E i, j \in DOMAIN join_output_file.rows :
          LET r == join_output_file.rows[i]
              q == join_output_file.rows[j]
          IN  /\ r.icao24 = "a4" /\ r.aircraft_type = "A320" /\ r.wingspan = Num(3410)
              /\ q.icao24 = "a1" /\ q.aircraft_type = "B738" /\ q.wingspan = Num(3580)

\* ------------------------------------------------------------------------ C18
\* C18: in the '_processed' file saved by 00_air_traffic_performance, a
\* waypoint whose icao24 is not in the aircraft database and whose other input
\* columns are complete is there, with aircraft_type 'A320' and wingspan 34.10.
C18_UnlistedAircraftKept ==
    (join_script = "performance" /\ join_pc = "done") =>
        \A i \in DOMAIN input_file :
            (ListedTypes(input_file[i].icao24) = {} /\ ~input_file[i].altitude.nan) =>
                \E j \in DOMAIN join_output_file.rows :
                    LET r == join_output_file.rows[j]
                    IN  /\ r.time = input_file[i].time
                        /\ r.icao24 = input_file[i].icao24
                        /\ r.aircraft_type = "A320"
                        /\ r.wingspan = Num(3410)

\* ------------------------------------------------------------------------ C19
\* C19: the main dataset is reduced to the first row of each flight_id before
\* the merges; the enriched summary has one row per row of the input summary,
\* in the same order, and each row has the icao24 and the date of the first
\* main row with its flight_id, or nulls when the main dataset has none.
C19_OneRowPerSummaryRow ==
    /\ attr_pc \notin {"idle", "dedup"} =>
          /\ \A i, j \in DOMAIN df2_dedup :
                df2_dedup[i].flight_id = df2_dedup[j].flight_id => i = j
          /\ \A i \in DOMAIN df2_dedup :
                \E k \in DOMAIN df2 :
                    /\ df2[k] = df2_dedup[i]
                    /\ \A n \in 1..(k - 1) : df2[n].flight_id # df2[k].flight_id
          /\ \A k \in DOMAIN df2 :
                \E i \in DOMAIN df2_dedup : df2_dedup[i].flight_id = df2[k].flight_id
    /\ attr_pc = "done" =>
          LET out == attr_output_file.rows
          IN  /\ Len(out) = Len(df1)
              /\ \A i \in DOMAIN df1 :
                    LET first == {k \in DOMAIN df2 :
                                     /\ df2[k].flight_id = df1[i].flight_id
                                     /\ \A n \in 1..(k - 1) :
                                           df2[n].flight_id # df1[i].flight_id}
                    IN  /\ out[i].flight_id = df1[i].flight_id
                        /\ out[i].summary = df1[i].summary
                        /\ first = {} =>
                              out[i].icao24 = NA /\ out[i].time.nat
                        /\ \A k \in first :
                              /\ out[i].icao24 = df2[k].icao24
                              /\ out[i].time.nat = df2[k].time.nat
                              /\ out[i].time.day = df2[k].time.day
                              /\ DOMAIN out[i].time = {"nat", "day"}

\* Saved: a summary of F1 and F3 against a main dataset with two different
\* rows of F1 and none of F3.
C19_Witness ==
    /\ attr_pc = "done"
    /\ Len(df2) >= 2
    /\ df2[1].flight_id = "F1" /\ df2[2].flight_id = "F1" /\ df2[1] # df2[2]
    /\ Len(df1) = 2 /\ df1[1].flight_id = "F1" /\ df1[2].flight_id = "F3"
    /\ attr_output_file.rows[1].icao24 = df2[1].icao24
    /\ attr_output_file.rows[2].icao24 = NA

\* ------------------------------------------------------------------------ C20
\* Sum of the ef cells of flight f in a dataset as read, from row i on (an
\* empty cell adds nothing).
RECURSIVE EfOfFlight(_, _, _)
EfOfFlight(file, f, i) ==
    IF i > Len(file) THEN 0
    ELSE (IF file[i].flight_id = f /\ ~file[i].ef.nan THEN file[i].ef.v ELSE 0)
         + EfOfFlight(file, f, i + 1)

\* C20: each of the three per-flight EF tables has exactly the flight_ids that
\* occur in all three input files, each once, with ef equal to the sum of the
\* ef values of that flight in the respective input file (rows without ef add
\* nothing, as in the sum of pandas).
C20_CommonFlightsSummed ==
    conv_pc = "sort" =>
        LET summed == <<df1_summed, df2_summed, df3_summed>>
            InFile(f, d) == \E i \in DOMAIN conv_files[d] : conv_files[d][i].flight_id = f
        IN  \A d \in 1..3 :
                /\ \A f \in {"F1", "F2", "F3"} :
                      (\A e \in 1..3 : InFile(f, e)) <=>
                          (\E k \in DOMAIN summed[d] : summed[d][k].flight_id = f)
                /\ \A k, n \in DOMAIN summed[d] :
                      summed[d][k].flight_id = summed[d][n].flight_id => k = n
                /\ \A k \in DOMAIN summed[d] :
                      summed[d][k].ef = Num(EfOfFlight(conv_files[d], summed[d][k].flight_id, 1))

\* Summed: F1 is in all three files, twice in the first, and the first file
\* also has a flight that is not in the others; the tables hold F1 only, with
\* 10 in the first.
C20_Witness ==
    /\ conv_pc = "sort"
    /\ df1_summed = <<[flight_id |-> "F1", ef |-> Num(10)]>>
    /\ df2_summed = <<[flight_id |-> "F1", ef |-> Num(5)]>>
    /\ Len(df3_summed) = 1
    /\ Len(conv_files[1]) = 3

\* ------------------------------------------------------------------------ C21
\* Rows this run has appended to the summary output file.
AppendedSummaryRows ==
    SubSeq(summary_output_csv_file.rows, Len(start_summary_rows) + 1,
           Len(summary_output_csv_file.rows))

\* The kinds of record this run has appended to the main file for flight f:
\* result rows, the no-contrail placeholder, the '_ERROR' placeholder.
RecordKinds(f) ==
    {<<AppendedRows[i].kind, AppendedRows[i].flight_id.suffix>> :
        i \in {k \in DOMAIN AppendedRows : /\ AppendedRows[k].kind # "header"
                                            /\ AppendedRows[k].flight_id.id = f}}

\* C21: for every flight processed in a run exactly one kind of record is
\* appended to the main output file (result rows, or the no-contrail
\* placeholder, or the '_ERROR' placeholder), never two kinds for the same
\* flight in the same run; a summary row is appended only for a flight whose
\* result rows were appended and that received no '_ERROR' placeholder.
C21_OneKindOfRecordPerFlight ==
    pc # "start" =>
        /\ \A k \in DOMAIN iterated : Cardinality(RecordKinds(iterated[k].fid)) = 1
        /\ \A f \in FlightIds :
              /\ Cardinality(RecordKinds(f)) <= 1
              /\ (\E i \in DOMAIN AppendedSummaryRows :
                      AppendedSummaryRows[i].flight_id.id = f)
                    => RecordKinds(f) = {<<"result", "">>}

\* ------------------------------------------------------------------------ C22
\* C22: in 06_route_cocip the met and rad datasets handed to the model for a
\* flight come from the same download attempt (both opened for the same
\* flight's time bounds); the model is never evaluated with met of one flight
\* and rad of another.
C22_MetAndRadOfSameDownload ==
    (script = "route" /\ pc = "model" /\ met # Unbound /\ rad # Unbound) => met = rad

\* ------------------------------------------------------------------------ C23
\* What C23 asks of the model step of a flight of 06_route_cocip that has no
\* weather data: the three downloads failed and no earlier download succeeded.
C23_Step ==
    (script = "route" /\ pc = "model" /\ AllAttemptsFailed /\ last_success = Unbound) =>
        /\ outcome' = "raise"
        /\ \E hdr \in {<<>>, <<HeaderRow>>} :
              output_csv_file'.rows =
                  output_csv_file.rows \o hdr \o
                  <<[kind |-> "nan",
                     flight_id |-> [id |-> CurFlight, suffix |-> "_ERROR"]]>>
        /\ summary_output_csv_file' = summary_output_csv_file
        /\ crash' = "none"
        /\ pc' = "flight"
        /\ flight_idx' = flight_idx + 1

\* C23: if all 3 download attempts of a flight fail and no download succeeded
\* for an earlier flight of the run, the model step of the flight fails inside
\* the per-flight try, the flight is recorded with the '_ERROR' placeholder
\* row, and the batch goes on to the next flight instead of crashing.
C23_AbsentWeatherGivesErrorRow == [][C23_Step]_vars

\* The second flight of a file is about to start after the first one, without
\* weather data, was recorded with the '_ERROR' placeholder.
C23_Witness ==
    /\ script = "route" /\ pc = "flight" /\ crash = "none"
    /\ AllAttemptsFailed /\ last_success = Unbound
    /\ outcome = "raise"
    /\ flight_idx = 2 /\ Len(filtered_flights_list) = 2
    /\ Len(output_csv_file.rows) = 2
    /\ output_csv_file.rows[2] =
          [kind |-> "nan",
           flight_id |-> [id |-> filtered_flights_list[1], suffix |-> "_ERROR"]]

\* ------------------------------------------------------------------------ C24
\* The main file held, when the run began, a record of flight f with the
\* plain flight_id: result rows or the no-contrail placeholder.
RecordedPlain(f) ==
    \E i \in DOMAIN start_rows :
        /\ start_rows[i].kind \in {"result", "nan"}
        /\ start_rows[i].flight_id = [id |-> f, suffix |-> ""]

\* The main file held, when the run began, the '_ERROR' placeholder of f and
\* no other record of f.
RecordedErrorOnly(f) ==
    /\ \E i \in DOMAIN start_rows :
          start_rows[i].flight_id = [id |-> f, suffix |-> "_ERROR"]
    /\ ~RecordedPlain(f)

InList(f, list) == \E i \in DOMAIN list : list[i] = f

\* C24: a flight whose only record in the main file is the '_ERROR'
\* placeholder of an earlier run is in the filtered list of the next run and
\* is evaluated again by it; a flight recorded with its result rows or with
\* the no-contrail placeholder is left out of the list and is not evaluated
\* by any later run.
C24_ErrorFlightsAreRetried ==
    run >= 2 =>
        /\ (pc \in {"flight", "download", "flightctor", "model"}
              /\ file_idx \in DOMAIN inputFiles) =>
              \A f \in FlightIds :
                  InList(f, inputFiles[file_idx]) =>
                      /\ RecordedErrorOnly(f) => InList(f, filtered_flights_list)
                      /\ RecordedPlain(f) => ~InList(f, filtered_flights_list)
        /\ \A f \in FlightIds :
              RecordedPlain(f) => \A k \in DOMAIN iterated : iterated[k].fid # f
        /\ pc = "done" =>
              \A f \in FlightIds :
                  (RecordedErrorOnly(f) /\ \E n \in DOMAIN inputFiles : InList(f, inputFiles[n]))
                      => \E k \in DOMAIN iterated : iterated[k].fid = f

\* The second run has finished: F1, left with its '_ERROR' placeholder by the
\* first run, was evaluated again; F2, recorded by the first run, was not.
C24_Witness ==
    /\ run = 2 /\ pc = "done"
    /\ RecordedErrorOnly("F1") /\ RecordedPlain("F2")
    /\ Len(iterated) = 1 /\ iterated[1].fid = "F1"
    /\ iterated[1].outcome = "result"

\* ------------------------------------------------------------------------ C25
\* C25: the two wind components of a waypoint are both taken from the wind
\* field or both NaN: when one of the two lookups raises, whichever, u_wind
\* and v_wind of the waypoint are both NaN, and no written row has exactly one
\* of them NaN.
C25_WindComponentsTogether ==
    /\ \A i \in DOMAIN lookup_log :
          LET c == lookup_log[i]
          IN  IF c.res = "ok"
              THEN /\ u_wind_list[i] = Num(c.wp.wind[1])
                   /\ v_wind_list[i] = Num(c.wp.wind[2])
              ELSE /\ u_wind_list[i] = NaN
                   /\ v_wind_list[i] = NaN
    /\ \A i \in DOMAIN TasDataRows :
          TasDataRows[i].u_wind.nan <=> TasDataRows[i].v_wind.nan

\* A flight was written whose first row had the northward lookup raise after
\* the eastward one succeeded, and whose second row had both succeed.
C25_Witness ==
    /\ tas_pc = "group"
    /\ Len(lookup_log) = 2
    /\ lookup_log[1].res = "v_raises" /\ lookup_log[2].res = "ok"
    /\ LET n == Len(TasDataRows)
       IN  /\ n >= 2
           /\ TasDataRows[n - 1].u_wind.nan /\ TasDataRows[n - 1].v_wind.nan
           /\ ~TasDataRows[n].u_wind.nan /\ ~TasDataRows[n].v_wind.nan

\* ------------------------------------------------------------------------ C26
\* Rows of the input files before file k.
RowsBefore(k) == FolderRows(SubSeq(csv_files, 1, k - 1))

\* What C26 asks of every state: a file without the groundspeed or heading
\* column is not got past, and no row of it or of a later file is written.
C26_State ==
    /\ \A k \in DOMAIN csv_files :
          ~csv_files[k].has_columns =>
              /\ tas_file <= k
              /\ Len(TasDataRows) <= RowsBefore(k)
              /\ (tas_file = k /\ tas_pc \in {"group", "rows", "crashed"}) => tas_group = 1
    /\ (tas_pc = "crashed" /\ tas_crash = "ValueError") =>
          /\ ~csv_files[tas_file].has_columns
          /\ Len(TasDataRows) = RowsBefore(tas_file)

\* What C26 asks of the step that ends the first flight of such a file.
C26_Step ==
    (/\ tas_pc = "rows"
     /\ Len(u_wind_list) = Len(CurGroupIndex)
     /\ ~csv_files[tas_file].has_columns) =>
        /\ tas_pc' = "crashed"
        /\ tas_crash' = "ValueError"
        /\ output_file' = output_file
        /\ tas_file' = tas_file

\* C26: when an input file lacks the groundspeed or the heading column, the
\* script raises ValueError while handling the first flight of that file and
\* stops: no row of that file is written, no later file is processed, and the
\* rows appended for earlier files stay in the output file unchanged.
C26_MissingColumnStopsRun == []C26_State /\ [][C26_Step]_vars

\* The run stopped at the first flight of the second file, which lacks a
\* column: the rows of the first file, and no others, are in the output file.
C26_Witness ==
    /\ tas_pc = "crashed" /\ tas_crash = "ValueError"
    /\ tas_file = 2
    /\ Len(TasDataRows) = RowsBefore(2)
    /\ Len(TasDataRows) >= 1
    /\ Len(lookup_log) >= 1

\* ------------------------------------------------------------------------ C27
\* What C27 asks of every state of 00_air_traffic_performance: the output file
\* of an input file whose handling raised is as it was when the script began.
C27_State ==
    join_script = "performance" =>
        /\ join_pc = "failed" =>
              /\ join_error = "Exception"
              /\ join_output_file = join_output_start
        /\ \A k \in DOMAIN join_finished :
              join_finished[k].error # "none" =>
                  join_finished[k].output = join_finished[k].start
        /\ (join_pc \in {"done", "failed"} /\ join_file = Len(input_files)) =>
              Len(join_finished) = Len(input_files) - 1

\* What C27 asks of the step in which a flight raises and of the step after it.
C27_Step ==
    join_script = "performance" =>
        /\ (join_pc = "groups" /\ join_error' # "none") =>
              /\ join_pc' = "failed"
              /\ join_output_file' = join_output_file
        /\ (join_pc = "failed" /\ join_file < Len(input_files)) =>
              /\ join_pc' = "read"
              /\ join_file' = join_file + 1
              /\ input_file' = input_files[join_file + 1]

\* C27: an exception raised while handling a flight of an input file (by the
\* performance model or otherwise) is caught at file level and only printed:
\* no '_processed' file is written or modified for that input file, not even
\* for the flights already evaluated, and the remaining input files are still
\* processed.
C27_FileLevelExcept == []C27_State /\ [][C27_Step]_vars

\* The second flight of the first file raised after the first flight had been
\* evaluated; the output file an earlier run left for the first file is as it
\* was, and the second file was processed and saved.
C27_Witness ==
    /\ join_script = "performance" /\ join_pc = "done" /\ join_file = 2
    /\ Len(join_finished) = 1
    /\ join_finished[1].error = "Exception"
    /\ join_finished[1].start = StaleOutput
    /\ join_finished[1].output = StaleOutput
    /\ Len(input_files[1]) = 2
    /\ input_files[1][1].flight_id # input_files[1][2].flight_id
    /\ join_output_file.exists

\* ------------------------------------------------------------------------ C28
\* Rows of a table with the flight_id f.
RowsOf(df, f) == Cardinality({k \in DOMAIN df : df[k].flight_id = f})

\* C28: the per-flight EF totals are split into the top contributors and the
\* rest, and the rest becomes the single row 'Others' with the sum of its ef:
\* every flight is counted exactly once, the ef column of the table sums to
\* the total EF of all flights, and the recomputed cumulative percentage of
\* the last row is 100.
C28_ParetoOthersPartition ==
    pareto_pc = "done" =>
        LET n    == Len(top_contributors)
            last == top_contributors[n]
            top  == SubSeq(top_contributors, 1, n - 1)
        IN  /\ last.flight_id = "Others"
            /\ last.ef = SumEf(others)
            /\ \A i \in DOMAIN summed_ef :
                  RowsOf(top, summed_ef[i].flight_id)
                      + RowsOf(others, summed_ef[i].flight_id) = 1
            /\ RowsOf(top, "Others") = 0
            /\ SumEf(top_contributors) = SumEf(summed_ef)
            /\ last.cumulative_percentage.kind = "num"
            /\ last.cumulative_percentage.num = 100 * last.cumulative_percentage.den

\* ------------------------------------------------------------------------ C29
\* The steps of a run of 06_route_cocip: one statement after the other.
RouteRun ==
    \/ RouteStartup
    \/ RouteNextFile
    \/ RouteBeginFlight
    \/ RouteDownloadAttempt
    \/ RouteFlightCtor
    \/ RouteEvalFlight

\* The output files a run of 06_route_cocip can find: none, a main file of
\* size 0, or what an earlier run wrote for F1 (a failure, or a result with
\* its summary row).
EarlierRunFiles ==
    { <<MissingFile, MissingFile>>,
      <<EmptyFile, MissingFile>>,
      <<ToCsvAppend(MissingFile, ErrorRow("F1"), TRUE), MissingFile>>,
      <<ToCsvAppend(MissingFile, ResultRows("F1"), TRUE),
        ToCsvAppend(MissingFile, SummaryRow("F1"), TRUE)>> }

InitRoute ==
    /\ ToolsIdle
    /\ TasIdle
    /\ script = "route"
    /\ inputFiles \in InputFolders(MaxInputFlights)
    /\ \E files \in EarlierRunFiles :
          /\ output_csv_file = files[1]
          /\ summary_output_csv_file = files[2]
    /\ run = 1
    /\ MemoryInit

\* One run of the script: the interpreter executes the next statement of a
\* run that has not ended.
SpecRouteLive == InitRoute /\ [][RouteRun]_vars /\ WF_vars(RouteRun)

\* The flight_ids the loops of this run went through, in order.
IteratedIds == [k \in DOMAIN iterated |-> iterated[k].fid]

\* The filtered lists of the first n input files of this run, one after the other.
RECURSIVE FilteredListsUpTo(_)
FilteredListsUpTo(n) ==
    IF n <= 0 THEN <<>>
    ELSE FilteredListsUpTo(n - 1)
             \o FilteredFlightsList(inputFiles[n], existing_flight_ids)

\* Sequential processing: the flights gone through are the filtered lists of
\* the files before the current one followed by the flights of the current
\* list before the current index; a retry loop is left by its third attempt.
C29_State ==
    script = "route" =>
        /\ pc \in {"start", "file", "done"} =>
              IteratedIds = FilteredListsUpTo(IF pc = "start" THEN 0 ELSE file_idx - 1)
        /\ pc \in {"flight", "download", "flightctor", "model"} =>
              /\ filtered_flights_list =
                     FilteredFlightsList(inputFiles[file_idx], existing_flight_ids)
              /\ IteratedIds = FilteredListsUpTo(file_idx - 1)
                                   \o SubSeq(filtered_flights_list, 1, flight_idx - 1)
        /\ pc = "done" => file_idx = Len(inputFiles) + 1
        /\ attempt <= max_retries
        /\ Len(attempt_log) <= max_retries
        /\ pc = "download" => Len(attempt_log) < max_retries /\ attempt = Len(attempt_log) + 1

\* One step of a run: the loops only go forward, and a run that ended does
\* nothing more.
C29_Step ==
    script = "route" =>
        /\ pc \notin {"done", "crashed"}
        /\ pc = "model" => pc' = "flight" /\ flight_idx' = flight_idx + 1
        /\ (pc = "flight" /\ flight_idx > Len(filtered_flights_list)) =>
              pc' = "file" /\ file_idx' = file_idx + 1
        /\ (pc = "file" /\ file_idx > Len(inputFiles)) => pc' = "done"
        /\ pc = "download" =>
              \/ pc' = "flightctor"
              \/ pc' = "download" /\ attempt' = attempt + 1
                                  /\ slept' = slept + retry_interval

====
